---- MODULE Spec2Model ----
(***************************************************************************)
(* Model of the HTN planner of InductorHtn (src/FXPlatform/Htn/HtnPlanner). *)
(* One action per iteration of the dispatch loop of FindNextPlan, plus the  *)
(* FindPlan / FindAllPlans drivers and the external Abort() request.        *)
(* Terms, unification, the RuleSet and the goal resolver live outside the   *)
(* planner sources and are modelled from their documented contracts.        *)
(***************************************************************************)
EXTENDS Integers, Sequences, FiniteSets, TLC

\* ------------------------------------------------------------------------
\* Bounds of the model
\* ------------------------------------------------------------------------
\* FindAllPlans stops being followed once it has collected this many
\* solutions (an aborted search would otherwise collect without end).
MaxSolutions == 4
\* Memory budgets (in model units) offered to a planning call.
LowBudget == 70
MidBudget == 110
HighBudget == 100000

\* ------------------------------------------------------------------------
\* Terms (HtnTerm): a name and a list of argument terms.
\* ------------------------------------------------------------------------
T(n, a) == [name |-> n, args |-> a]
K(n) == T(n, <<>>)
VarNames == {"?x", "?v", "?y", "?w"}
IsVariable(t) == t.args = <<>> /\ t.name \in VarNames
NoTask == K("<nullptr>")

RECURSIVE IsGroundTerm(_)
IsGroundTerm(t) ==
    /\ ~IsVariable(t)
    /\ \A i \in 1..Len(t.args) : IsGroundTerm(t.args[i])

RECURSIVE Occurs(_, _)
Occurs(v, t) ==
    \/ t = v
    \/ \E i \in 1..Len(t.args) : Occurs(v, t.args[i])

\* A unifier is an ordered list of bindings [var, val].
Bound(u, t) == \E i \in 1..Len(u) : u[i].var = t.name
ValueOf(u, t) == u[CHOOSE i \in 1..Len(u) : u[i].var = t.name].val

RECURSIVE SubstituteUnifiers(_, _)
SubstituteUnifiers(u, t) ==
    IF IsVariable(t)
    THEN IF Bound(u, t) THEN SubstituteUnifiers(u, ValueOf(u, t)) ELSE t
    ELSE T(t.name, [i \in 1..Len(t.args) |-> SubstituteUnifiers(u, t.args[i])])

SubstituteAll(u, ts) == [i \in 1..Len(ts) |-> SubstituteUnifiers(u, ts[i])]

\* Result of a unification: ok = FALSE is the null unifier.
NullUnifier == [ok |-> FALSE, u |-> <<>>]
Bind(u, v, t) ==
    [i \in 1..Len(u) |->
        [var |-> u[i].var, val |-> SubstituteUnifiers(<<[var |-> v.name, val |-> t]>>, u[i].val)]]
    \o <<[var |-> v.name, val |-> t]>>

RECURSIVE UnifyFrom(_, _, _)
RECURSIVE UnifyArgs(_, _, _, _)
UnifyFrom(a, b, r) ==
    IF ~r.ok THEN NullUnifier
    ELSE LET x == SubstituteUnifiers(r.u, a)
             y == SubstituteUnifiers(r.u, b)
         IN  IF x = y THEN r
             ELSE IF IsVariable(x)
                  THEN IF Occurs(x, y) THEN NullUnifier
                       ELSE [ok |-> TRUE, u |-> Bind(r.u, x, y)]
             ELSE IF IsVariable(y)
                  THEN IF Occurs(y, x) THEN NullUnifier
                       ELSE [ok |-> TRUE, u |-> Bind(r.u, y, x)]
             ELSE IF x.name # y.name \/ Len(x.args) # Len(y.args) THEN NullUnifier
             ELSE UnifyArgs(x.args, y.args, 1, r)
UnifyArgs(xs, ys, i, r) ==
    IF i > Len(xs) \/ ~r.ok THEN r
    ELSE UnifyArgs(xs, ys, i + 1, UnifyFrom(xs[i], ys[i], r))

Unify(a, b) == UnifyFrom(a, b, [ok |-> TRUE, u |-> <<>>])
IsGround(u) == \A i \in 1..Len(u) : IsGroundTerm(u[i].val)

\* ------------------------------------------------------------------------
\* RuleSet (facts only, document order) and the resolver.
\* ------------------------------------------------------------------------
InSeq(x, s) == \E i \in 1..Len(s) : s[i] = x
RECURSIVE Without(_, _)
Without(s, dels) ==
    IF s = <<>> THEN <<>>
    ELSE IF InSeq(Head(s), dels) THEN Without(Tail(s), dels)
    ELSE <<Head(s)>> \o Without(Tail(s), dels)

\* HtnRuleSet::Update: the deletions are removed, the additions appended.
Update(facts, dels, adds) == Without(facts, dels) \o adds

\* ResolveAll: every unifier of the conjunction, in discovery order
\* (goals left to right, facts in document order); <<>> is null.
\* failureContext(...) always succeeds and binds nothing.
RECURSIVE ResolveFrom(_, _, _, _)
RECURSIVE ResolveFacts(_, _, _, _, _)
ResolveFrom(facts, goals, i, u) ==
    IF i > Len(goals) THEN <<u>>
    ELSE IF goals[i].name = "failureContext" THEN ResolveFrom(facts, goals, i + 1, u)
    ELSE ResolveFacts(facts, goals, i, u, 1)
ResolveFacts(facts, goals, i, u, k) ==
    IF k > Len(facts) THEN <<>>
    ELSE LET r == UnifyFrom(goals[i], facts[k], [ok |-> TRUE, u |-> u])
         IN  (IF r.ok THEN ResolveFrom(facts, goals, i + 1, r.u) ELSE <<>>)
             \o ResolveFacts(facts, goals, i, u, k + 1)
ResolveAll(facts, goals) == ResolveFrom(facts, goals, 1, <<>>)

\* Index of the furthest goal of the conjunction that was reached and failed.
RECURSIVE FurthestFrom(_, _, _, _)
RECURSIVE FurthestFacts(_, _, _, _, _)
Max2(a, b) == IF a >= b THEN a ELSE b
FurthestFrom(facts, goals, i, u) ==
    IF i > Len(goals) THEN -1
    ELSE IF goals[i].name = "failureContext" THEN FurthestFrom(facts, goals, i + 1, u)
    ELSE Max2(i - 1, FurthestFacts(facts, goals, i, u, 1))
FurthestFacts(facts, goals, i, u, k) ==
    IF k > Len(facts) THEN -1
    ELSE LET r == UnifyFrom(goals[i], facts[k], [ok |-> TRUE, u |-> u])
         IN  Max2(IF r.ok THEN FurthestFrom(facts, goals, i + 1, r.u) ELSE -1,
                  FurthestFacts(facts, goals, i, u, k + 1))
FurthestFailure(facts, goals) == FurthestFrom(facts, goals, 1, <<>>)

\* Memory the resolver needs for a query (model units).
ResolverMemory(facts, goals) == Len(goals) * Len(facts)


\* ------------------------------------------------------------------------
\* The domain: operators (m_operators, keyed by name) and methods
\* (m_methods, each with the documentOrder AddMethod gave it).
\* ------------------------------------------------------------------------
V(n) == K(n)
Op(h, d, a, hid) == [head |-> h, deletions |-> d, additions |-> a, isHidden |-> hid]
m_operators ==
    [n \in {"trace", "hide", "swap", "drop"} |->
        CASE n = "trace" -> Op(T("trace", <<V("?v")>>), <<>>, <<T("item", <<V("?v")>>)>>, FALSE)
          [] n = "hide"  -> Op(T("hide", <<V("?v")>>), <<>>, <<T("seen", <<V("?v")>>)>>, TRUE)
          [] n = "swap"  -> Op(T("swap", <<V("?v")>>), <<T("ok", <<V("?v")>>)>>,
                               <<T("used", <<V("?v")>>)>>, FALSE)
          [] n = "drop"  -> Op(T("drop", <<V("?v"), V("?w")>>), <<T("Alt", <<V("?w")>>)>>,
                               <<T("Alt", <<T("n", <<V("?v")>>)>>),
                                 T("Peer", <<T("n", <<V("?v")>>), V("?v")>>)>>, FALSE)]

\* Executing an operator of a plan: its deletions, then its additions.
\* The parallel markers name no operator and change nothing.
ApplyOperator(facts, step) ==
    IF step.name \notin DOMAIN m_operators THEN facts
    ELSE LET op == m_operators[step.name]
             u == Unify(step, op.head).u
         IN  Update(facts, SubstituteAll(u, op.deletions), SubstituteAll(u, op.additions))

RECURSIVE Replay(_, _)
Replay(facts, steps) ==
    IF steps = <<>> THEN facts ELSE Replay(ApplyOperator(facts, Head(steps)), Tail(steps))

IsVisible(step) == ~m_operators[step.name].isHidden
IsOperatorStep(step) == step.name \in DOMAIN m_operators

Normal == "Normal"
AllSetOf == "AllSetOf"
AnySetOf == "AnySetOf"
Method(h, c, t, ty, def, doc) ==
    [head |-> h, condition |-> c, tasks |-> t, methodType |-> ty, isDefault |-> def,
     documentOrder |-> doc]
m_methods ==
    { Method(K("pick"), <<T("Alt", <<V("?x")>>)>>, <<T("trace", <<V("?x")>>)>>, Normal, FALSE, 1),
      Method(K("pick"), <<T("Alt2", <<V("?x")>>)>>, <<T("trace", <<V("?x")>>)>>, Normal, FALSE, 2),
      Method(K("doAI"), <<K("c1")>>, <<T("trace", <<K("m1")>>)>>, Normal, FALSE, 3),
      Method(K("doAI"), <<K("c2")>>, <<T("trace", <<K("e2")>>)>>, Normal, TRUE, 4),
      Method(K("doAI"), <<K("c3")>>, <<T("trace", <<K("e3")>>)>>, Normal, TRUE, 5),
      Method(K("doAI"), <<K("c4")>>, <<T("trace", <<K("m4")>>)>>, Normal, FALSE, 6),
      Method(K("doAI"), <<>>, <<T("trace", <<K("e5")>>)>>, Normal, TRUE, 7),
      Method(K("all"), <<T("Alt", <<V("?x")>>)>>,
             <<T("trace", <<V("?x")>>), T("need", <<V("?x")>>)>>, AllSetOf, FALSE, 8),
      Method(K("all"), <<>>, <<T("trace", <<K("fb")>>)>>, Normal, FALSE, 9),
      Method(K("any"), <<T("Alt", <<V("?x")>>)>>,
             <<T("trace", <<V("?x")>>), T("need", <<V("?x")>>)>>, AnySetOf, FALSE, 10),
      Method(K("any"), <<>>, <<T("trace", <<K("fb")>>)>>, Normal, TRUE, 11),
      Method(T("need", <<V("?v")>>), <<T("ok", <<V("?v")>>)>>, <<>>, Normal, FALSE, 12),
      Method(T("has", <<V("?v")>>), <<T("item", <<V("?v")>>)>>, <<>>, Normal, FALSE, 13),
      Method(T("has", <<K("fb")>>), <<>>, <<T("hide", <<K("s")>>)>>, Normal, TRUE, 14),
      Method(K("grow"), <<>>, <<T("trace", <<K("g1")>>)>>, Normal, FALSE, 15),
      Method(K("grow"), <<>>,
             <<T("trace", <<K("g2")>>), T("trace", <<K("g3")>>), T("trace", <<K("g4")>>)>>,
             Normal, FALSE, 16),
      Method(K("check"), <<T("failureContext", <<K("tag")>>), K("c9")>>, <<>>,
             Normal, FALSE, 17),
      Method(K("sweep"), <<T("Alt", <<V("?x")>>), T("Peer", <<V("?x"), V("?y")>>)>>,
             <<T("drop", <<V("?x"), V("?y")>>)>>, AllSetOf, FALSE, 18),
      Method(K("redo"), <<>>,
             <<T("try", <<K("stuck")>>), T("try", <<T("need", <<K("a")>>)>>),
               T("try", <<K("stuck")>>), T("trace", <<K("r")>>)>>, Normal, FALSE, 19),
      Method(K("outer"), <<>>,
             <<K("grow"), T("need", <<K("a")>>), T("try", <<K("stuck")>>), K("pick")>>,
             Normal, FALSE, 20),
      Method(K("spin"), <<>>, <<T("trace", <<K("s")>>), K("spin")>>, Normal, FALSE, 21),
      Method(K("climb"), <<>>, <<T("trace", <<K("c")>>)>>, Normal, FALSE, 22),
      Method(K("climb"), <<>>, <<T("hide", <<K("c")>>), K("climb")>>, Normal, FALSE, 23),
      Method(K("audit"), <<T("failureContext", <<K("first")>>), K("c8")>>, <<>>,
             Normal, FALSE, 24),
      Method(K("audit"), <<T("failureContext", <<K("second")>>), K("c8")>>, <<>>,
             Normal, FALSE, 25) }
MethodAt(doc) == CHOOSE m \in m_methods : m.documentOrder = doc
NoMethod == [doc |-> 0, u |-> <<>>]

\* ------------------------------------------------------------------------
\* Planning problems offered to FindPlan / FindAllPlans.
\* ------------------------------------------------------------------------
Problem(g, base, opt) == [goals |-> g, base |-> base, optional |-> opt]
Fa(n, c) == T(n, <<K(c)>>)
Problems ==
    { Problem(<<K("pick")>>, <<>>, <<Fa("Alt", "a"), Fa("Alt", "b"), Fa("Alt2", "c")>>),
      Problem(<<K("doAI")>>, <<>>, <<K("c1"), K("c2"), K("c3"), K("c4")>>),
      Problem(<<K("doAI"), Fa("has", "e3")>>, <<K("c3")>>, <<K("c1"), K("c2"), K("c4")>>),
      Problem(<<K("all")>>, <<Fa("Alt", "a"), Fa("Alt", "b")>>, <<Fa("ok", "a"), Fa("ok", "b")>>),
      Problem(<<K("any")>>, <<Fa("Alt", "a"), Fa("Alt", "b")>>, <<Fa("ok", "a"), Fa("ok", "b")>>),
      Problem(<<K("any"), Fa("has", "fb")>>, <<Fa("Alt", "a")>>, <<Fa("ok", "a")>>),
      Problem(<<T("try", <<Fa("trace", "q"), Fa("need", "a")>>), Fa("trace", "z")>>,
              <<>>, <<Fa("ok", "a")>>),
      Problem(<<T("try", <<K("pick")>>), Fa("has", "b")>>, <<>>,
              <<Fa("Alt", "a"), Fa("Alt", "b")>>),
      Problem(<<T("try", <<Fa("need", "a")>>), T("try", <<Fa("need", "b")>>), Fa("swap", "b")>>,
              <<Fa("ok", "b")>>, <<Fa("ok", "a")>>),
      Problem(<<T("parallel", <<Fa("trace", "p"), Fa("trace", "q")>>), Fa("trace", "z")>>,
              <<>>, <<>>),
      Problem(<<T("parallel", <<K("pick"), Fa("hide", "s")>>),
                T("parallel", <<Fa("trace", "z")>>)>>, <<Fa("Alt", "a"), Fa("Alt", "b")>>, <<>>),
      Problem(<<T("parallel", <<Fa("trace", "p"), T("parallel", <<Fa("trace", "q")>>)>>),
                T("try", <<T("parallel", <<Fa("swap", "b"), Fa("need", "a")>>)>>),
                T("parallel", <<>>)>>, <<Fa("ok", "b")>>, <<Fa("ok", "a")>>),
      Problem(<<Fa("hide", "s"), Fa("trace", "z")>>, <<>>, <<>>),
      Problem(<<Fa("trace", "z"), T("trace", <<V("?x")>>)>>, <<>>, <<>>),
      Problem(<<T("try", <<K("stuck")>>), Fa("trace", "z")>>, <<>>, <<>>),
      Problem(<<T("try", <<Fa("swap", "b"), Fa("need", "a")>>), Fa("trace", "z")>>,
              <<Fa("ok", "b")>>, <<Fa("ok", "a")>>),
      Problem(<<K("grow")>>, <<>>, <<>>),
      Problem(<<T("try", <<K("stuck")>>), K("pick")>>, <<Fa("Alt", "a"), Fa("Alt", "b")>>, <<>>),
      Problem(<<K("grow"), K("pick")>>, <<Fa("Alt", "a")>>, <<>>),
      Problem(<<K("redo")>>, <<>>, <<>>),
      Problem(<<K("outer")>>, <<Fa("Alt", "a"), Fa("ok", "a")>>, <<>>),
      Problem(<<K("all")>>, <<>>, <<>>),
      Problem(<<K("any")>>, <<>>, <<>>),
      Problem(<<Fa("trace", "z"), K("swap")>>, <<>>, <<>>),
      Problem(<<K("doAI"), K("check")>>, <<>>, <<K("c1"), K("c9")>>),
      Problem(<<K("sweep")>>,
              <<Fa("Alt", "a"), Fa("Alt", "b"), T("Peer", <<K("a"), K("b")>>),
                T("Peer", <<K("b"), K("a")>>)>>, <<>>),
      Problem(<<K("audit")>>, <<>>, <<K("c8")>>),
      Problem(<<T("parallel", <<T("parallel", <<Fa("trace", "q")>>), Fa("trace", "p")>>)>>,
              <<>>, <<>>),
      Problem(<<>>, <<>>, <<K("c1")>>) }

RECURSIVE Pick(_, _, _)
Pick(s, keep, i) ==
    IF i > Len(s) THEN <<>>
    ELSE (IF i \in keep THEN <<s[i]>> ELSE <<>>) \o Pick(s, keep, i + 1)

\* lexical_cast between a node id and the constant naming it in bookkeeping tasks.
Digits == <<"0", "1", "2", "3", "4", "5", "6", "7", "8", "9", "10", "11", "12", "13", "14",
            "15", "16", "17", "18", "19", "20", "21", "22", "23", "24", "25", "26", "27",
            "28", "29", "30", "31", "32", "33", "34", "35", "36", "37", "38", "39">>
IdToString(i) == Digits[i + 1]
StringToId(s) == (CHOOSE i \in 1..Len(Digits) : Digits[i] = s) - 1
IdTerm(n, id) == T(n, <<K(IdToString(id))>>)
IdOf(t) == StringToId(t.args[1].name)


\* ------------------------------------------------------------------------
\* PlanNode and PlanState.  RuleSets and operator vectors are shared through
\* shared_ptr: nodes hold an index into ps.rs / ps.opv (0 is nullptr).
\* Fields whose name starts with g are history kept for the properties
\* (gTryRs: the number of RuleSets when the node took up its try; gSkippedOps:
\* the operators applied inside the try bodies skipped on the way to the node);
\* ps.gRsApplied[i] is the operators applied so far to the RuleSet ps.rs[i],
\* ps.gBudgetExceeded that a measurement has been over the budget,
\* ps.gFailures the condition failures in the order RecordFailure was told.
\* ------------------------------------------------------------------------
SizeofPlanNode == 8
SizeofPlanState == 16

EmptyMap == [x \in {} |-> 0]
\* gOrigins[i] is <<id>>, id the treeNodeID of the task whose method produced
\* tasks[i]; NoOrigin for a goal, a marker and the tasks inside try() and
\* parallel().
NoOrigin == <<>>
Put(m, k, v) == [x \in DOMAIN m \cup {k} |-> IF x = k THEN v ELSE m[x]]

PlanNode(nodeID, stateArg, tasksArg, operatorsArg, applied) ==
    [m_nodeID |-> nodeID, state |-> stateArg, tasks |-> tasksArg, operators |-> operatorsArg,
     task |-> NoTask, continuePoint |-> "NextTask",
     atLeastOneMethodHadSolution |-> FALSE, methodHadSolution |-> FALSE,
     conditionIndex |-> -1, conditionResolutions |-> <<>>,
     method |-> NoMethod, unifiedMethods |-> <<>>, unifiedMethodsSet |-> FALSE,
     retry |-> FALSE, tryAnyOfSuccessCount |-> 0, totalMemoryAtNodePush |-> 0,
     siblingStack |-> <<>>,
     gApplied |-> applied, gUnified |-> <<>>, gAttempted |-> {}, gSkipped |-> {},
     gYielded |-> {}, gTryEndSeen |-> FALSE, gTrySkipped |-> FALSE,
     gFacts |-> <<>>, gOps |-> <<>>, gTryRs |-> 0, gSkippedOps |-> {},
     gOrigins |-> [i \in 1..Len(tasksArg) |-> NoOrigin], gTaskOrigin |-> NoOrigin,
     gScopes |-> <<>>, gPushedBy |-> -1]

Top(ps) == ps.stack[Len(ps.stack)]
WithTop(ps, n) == [ps EXCEPT !.stack[Len(ps.stack)] = n]
OpsOf(ps, n) == IF n.operators = 0 THEN <<>> ELSE ps.opv[n.operators]

RECURSIVE SumLen(_)
SumLen(us) == IF us = <<>> THEN 0 ELSE Len(Head(us)) + SumLen(Tail(us))

NodeDynamicSize(ps, n) ==
    SizeofPlanNode
    + (IF n.conditionResolutions = <<>> THEN 0
       ELSE 1 + Len(n.conditionResolutions) + SumLen(n.conditionResolutions))
    + Len(n.method.u)
    + (IF n.operators = 0 THEN 0 ELSE 1 + Len(ps.opv[n.operators]))
    + Len(ps.rs[n.state])
    + 1 + Len(n.tasks)
    + (IF ~n.unifiedMethodsSet THEN 0
       ELSE 1 + Len(n.unifiedMethods)
            + SumLen([i \in 1..Len(n.unifiedMethods) |-> n.unifiedMethods[i].u]))

RECURSIVE StackSize(_, _)
StackSize(ps, i) ==
    IF i > Len(ps.stack) THEN 0 ELSE NodeDynamicSize(ps, ps.stack[i]) + StackSize(ps, i + 1)

\* PlanState::dynamicSize, without its call of CheckHighestMemory.
dynamicSize(ps) ==
    SizeofPlanState + ps.sharedSize + Len(ps.furthestCriteriaFailureContext)
    + Len(ps.stack) + StackSize(ps, 1)

\* The last sample kept, whether or not it is the highest.
CheckHighestMemory_Last(ps, currentMemory) ==
    [ps EXCEPT !.highestMemoryUsed = currentMemory]

CheckHighestMemory(ps, currentMemory) ==
    IF currentMemory > ps.highestMemoryUsed
    THEN [ps EXCEPT !.highestMemoryUsed = currentMemory]
    ELSE ps

\* The measurement taken but never compared with the budget.
OutOfMemoryAtNodePush_Never(ps, totalMemoryAtNodePush) == FALSE

OutOfMemoryAtNodePush(ps, totalMemoryAtNodePush) == totalMemoryAtNodePush > ps.memoryBudget

RECURSIVE PopExhausted(_)
PopExhausted(sib) ==
    IF sib # <<>> /\ sib[Len(sib)][2] = 0 THEN PopExhausted(SubSeq(sib, 1, Len(sib) - 1))
    ELSE sib
Decrement(sib) ==
    IF sib # <<>> /\ sib[Len(sib)][2] > 0
    THEN [sib EXCEPT ![Len(sib)] = <<@[1], @[2] - 1>>]
    ELSE sib

\* Pushes newNode (memory measured before the push) and sets the return point.
PushNode(ps, newNode, returnPoint) ==
    LET mem == dynamicSize(ps)
        child == [newNode EXCEPT
                    !.totalMemoryAtNodePush = mem,
                    !.gPushedBy = Top(ps).m_nodeID,
                    !.continuePoint = IF OutOfMemoryAtNodePush(ps, mem)
                                      THEN "OutOfMemory" ELSE "NextTask"]
        ps1 == [CheckHighestMemory(ps, mem) EXCEPT !.gSamples = Append(@, mem)]
    IN  [ps1 EXCEPT
            !.nextNodeID = @ + 1,
            !.gBudgetExceeded = @ \/ OutOfMemoryAtNodePush(ps, mem),
            !.stack = Append([@ EXCEPT ![Len(@)].continuePoint = returnPoint], child)]

\* The origin of the tasks a node puts in front of its queue.
OriginsOf(ps, node, additionalTasks) ==
    [i \in 1..Len(additionalTasks) |->
        IF node.task.name \in {"try", "parallel"} THEN NoOrigin
        ELSE IF node.m_nodeID \in DOMAIN ps.nodeIDToLastTreeNodeID
             THEN <<ps.nodeIDToLastTreeNodeID[node.m_nodeID]>>
        ELSE NoOrigin]

SearchNextNode(ps, additionalTasks, returnPoint) ==
    LET node == Top(ps)
        newNode == PlanNode(ps.nextNodeID, node.state, additionalTasks \o node.tasks,
                            node.operators, node.gApplied)
        sib == IF ps.sibTracking THEN Decrement(PopExhausted(node.siblingStack)) ELSE <<>>
    IN  PushNode(ps, [newNode EXCEPT !.siblingStack = sib,
                                     !.gSkippedOps = node.gSkippedOps,
                                     !.gScopes = node.gScopes,
                                     !.gOrigins = OriginsOf(ps, node, additionalTasks)
                                                  \o node.gOrigins], returnPoint)

\* The child made on the RuleSet and operator list of its parent, no copy taken.
SearchNextNodeBacktrackable_NoCopy(ps, additionalTasks, returnPoint) ==
    SearchNextNode(ps, additionalTasks, returnPoint)

\* The child given an operator list of its own but the RuleSet of its parent.
SearchNextNodeBacktrackable_SameRuleSet(ps, additionalTasks, returnPoint) ==
    LET node == Top(ps)
        marker == IF ps.sibTracking /\ Len(additionalTasks) > 0 /\ Len(node.tasks) > 0
                  THEN <<IdTerm("methodScopeEnd", node.m_nodeID)>> ELSE <<>>
        opv1 == IF node.operators = 0 THEN ps.opv ELSE Append(ps.opv, ps.opv[node.operators])
        newNode == PlanNode(ps.nextNodeID, node.state, additionalTasks \o marker \o node.tasks,
                            IF node.operators = 0 THEN 0 ELSE Len(opv1), node.gApplied)
    IN  PushNode([ps EXCEPT !.opv = opv1],
                 [newNode EXCEPT !.gSkippedOps = node.gSkippedOps,
                                 !.gScopes = node.gScopes,
                                 !.gOrigins = OriginsOf(ps, node, additionalTasks)
                                              \o [i \in 1..Len(marker) |-> NoOrigin]
                                              \o node.gOrigins],
                 returnPoint)

SearchNextNodeBacktrackable(ps, additionalTasks, returnPoint) ==
    LET node == Top(ps)
        marker == IF ps.sibTracking /\ Len(additionalTasks) > 0 /\ Len(node.tasks) > 0
                  THEN <<IdTerm("methodScopeEnd", node.m_nodeID)>> ELSE <<>>
        mergedTasks == additionalTasks \o marker \o node.tasks
        \* state->CreateCopy() and a copy of the operator vector
        rs1 == Append(ps.rs, ps.rs[node.state])
        opv1 == IF node.operators = 0 THEN ps.opv ELSE Append(ps.opv, ps.opv[node.operators])
        newNode == PlanNode(ps.nextNodeID, Len(rs1), mergedTasks,
                            IF node.operators = 0 THEN 0 ELSE Len(opv1), node.gApplied)
        popped == PopExhausted(node.siblingStack)
        sib == IF ~ps.sibTracking THEN <<>>
               ELSE IF Len(additionalTasks) > 0
                    THEN Append(popped, <<node.m_nodeID, Len(additionalTasks) - 1>>)
               ELSE IF Len(mergedTasks) > 0 THEN Decrement(popped)
               ELSE popped
    IN  PushNode([ps EXCEPT !.rs = rs1, !.opv = opv1,
                            !.gRsApplied = Append(@, @[node.state])],
                 [newNode EXCEPT !.siblingStack = sib, !.gSkippedOps = node.gSkippedOps,
                                 !.gScopes = node.gScopes,
                                 !.gOrigins = OriginsOf(ps, node, additionalTasks)
                                              \o [i \in 1..Len(marker) |-> NoOrigin]
                                              \o node.gOrigins],
                 returnPoint)

\* ps.gLastPop notes the last pop: the node popped, the node that had pushed
\* it (gPushedBy) and the value handed to Return.
LastPop(ps, value) ==
    <<[child |-> Top(ps).m_nodeID, pushedBy |-> Top(ps).gPushedBy, value |-> value]>>

\* The node popped, the shared returnValue left as it was.
Return_Silent(ps, value) ==
    [ps EXCEPT !.stack = SubSeq(@, 1, Len(@) - 1), !.gLastPop = LastPop(ps, value)]

\* HtnPlanner::Return
Return(ps, value) ==
    [ps EXCEPT !.stack = SubSeq(@, 1, Len(@) - 1), !.returnValue = value,
               !.gLastPop = LastPop(ps, value)]

SetNodeTask(n) ==
    IF Len(n.tasks) > 0
    THEN [n EXCEPT !.task = Head(n.tasks), !.tasks = Tail(n.tasks),
                   !.gTaskOrigin = Head(n.gOrigins), !.gOrigins = Tail(n.gOrigins)]
    ELSE [n EXCEPT !.task = NoTask]

SetNextMethodThatUnifies(n) ==
    LET r == [n EXCEPT !.conditionIndex = -1, !.conditionResolutions = <<>>]
    IN  IF Len(n.unifiedMethods) = 0 THEN [r EXCEPT !.method = NoMethod]
        ELSE [r EXCEPT !.method = Head(n.unifiedMethods), !.unifiedMethods = Tail(@)]

\* PlanNode::condition(): conditionIndex is 0-based; FALSE stands for nullptr.
HasCondition(n) ==
    n.conditionResolutions # <<>> /\ n.conditionIndex < Len(n.conditionResolutions)
Condition(n) == n.conditionResolutions[n.conditionIndex + 1]

\* AddToOperators with the push_back forgotten.
AddToOperators_Omitted(ps, operatorSubstituted) == ps

AddToOperators(ps, operatorSubstituted) ==
    LET node == Top(ps)
    IN  IF node.operators = 0
        THEN WithTop([ps EXCEPT !.opv = Append(@, <<operatorSubstituted>>)],
                     [node EXCEPT !.operators = Len(ps.opv) + 1])
        ELSE [ps EXCEPT !.opv[node.operators] = Append(@, operatorSubstituted)]

FindNodeIndex(stack, id) == CHOOSE i \in 1..Len(stack) : stack[i].m_nodeID = id
NodeOnStack(stack, id) == \E i \in 1..Len(stack) : stack[i].m_nodeID = id


\* ------------------------------------------------------------------------
\* Decomposition tree.  decompositionTree[i + 1] is the entry with
\* treeNodeID i (treeNodeIDToTreeIndex is that correspondence).
\* ------------------------------------------------------------------------
BookkeepingTasks ==
    {"tryEnd", "methodScopeEnd", "countAnyOf", "failIfNoneOf", "beginParallel", "endParallel"}

DecompTreeNode(treeNodeID, nodeID, parentNodeID, taskName) ==
    [treeNodeID |-> treeNodeID, nodeID |-> nodeID, parentNodeID |-> parentNodeID,
     childNodeIDs |-> <<>>, taskName |-> taskName, isOperator |-> FALSE,
     isSuccess |-> FALSE, isFailed |-> FALSE, solutionID |-> -1, methodIndex |-> -1,
     failedConditionIndex |-> -1, gOrigin |-> NoOrigin]

NodeIDToTreeNodeID(ps, nodeID) ==
    IF nodeID \in DOMAIN ps.nodeIDToLastTreeNodeID THEN ps.nodeIDToLastTreeNodeID[nodeID]
    ELSE -1

StackParent(ps) == IF Len(ps.stack) > 1 THEN ps.stack[Len(ps.stack) - 1].m_nodeID ELSE -1

RECURSIVE WalkBookkeepingParents(_, _)
WalkBookkeepingParents(ps, parentNodeID) ==
    IF parentNodeID \notin DOMAIN ps.nodeIDToLastTreeNodeID
       /\ parentNodeID \in DOMAIN ps.bookkeepingParents
    THEN WalkBookkeepingParents(ps, ps.bookkeepingParents[parentNodeID])
    ELSE parentNodeID

ScopeParent(ps, node) ==
    IF node.siblingStack # <<>> THEN node.siblingStack[Len(node.siblingStack)][1]
    ELSE StackParent(ps)

DetermineTreeParent(ps, node) ==
    IF ps.sibTracking THEN WalkBookkeepingParents(ps, ScopeParent(ps, node))
    ELSE StackParent(ps)

RecordOperator(ps, nodeID) ==
    LET id == NodeIDToTreeNodeID(ps, nodeID)
    IN  IF id = -1 THEN ps
        ELSE [ps EXCEPT !.decompositionTree[id + 1].isOperator = TRUE]

RecordMethodChoice(ps, nodeID, doc) ==
    LET id == NodeIDToTreeNodeID(ps, nodeID)
    IN  IF id = -1 THEN ps
        ELSE [ps EXCEPT !.decompositionTree[id + 1] =
                 [@ EXCEPT !.isOperator = FALSE, !.methodIndex = doc,
                           !.failedConditionIndex = -1]]

MarkNodeFailed(ps, nodeID, failedIndex) ==
    LET id == NodeIDToTreeNodeID(ps, nodeID)
    IN  IF id = -1 THEN ps
        ELSE [ps EXCEPT !.decompositionTree[id + 1] =
                 [@ EXCEPT !.isFailed = TRUE, !.failedConditionIndex = failedIndex]]

CreateTreeNodeForTask(ps, node) ==
    IF node.task.name \in BookkeepingTasks
    THEN [ps EXCEPT !.bookkeepingParents =
             Put(@, node.m_nodeID,
                 IF ps.sibTracking THEN WalkBookkeepingParents(ps, ScopeParent(ps, node))
                 ELSE StackParent(ps))]
    ELSE IF /\ node.m_nodeID \in DOMAIN ps.nodeIDToLastTreeNodeID
            /\ ps.decompositionTree[ps.nodeIDToLastTreeNodeID[node.m_nodeID] + 1].taskName
                 = node.task
    THEN ps
    ELSE LET parentPlanNodeID == DetermineTreeParent(ps, node)
             parentTreeNodeID == IF parentPlanNodeID = -1 THEN -1
                                 ELSE NodeIDToTreeNodeID(ps, parentPlanNodeID)
             treeNode == [DecompTreeNode(ps.nextTreeNodeID, node.m_nodeID, parentTreeNodeID,
                                         node.task) EXCEPT !.gOrigin = node.gTaskOrigin]
             tree1 == Append(ps.decompositionTree, treeNode)
             tree2 == IF parentTreeNodeID = -1 THEN tree1
                      ELSE [tree1 EXCEPT ![parentTreeNodeID + 1].childNodeIDs =
                               IF InSeq(treeNode.treeNodeID, @) THEN @
                               ELSE Append(@, treeNode.treeNodeID)]
         IN  [ps EXCEPT !.nextTreeNodeID = @ + 1,
                        !.nodeIDToLastTreeNodeID = Put(@, node.m_nodeID, treeNode.treeNodeID),
                        !.decompositionTree = tree2]

\* First loop of MarkPathSuccess: the tree node the leaf stands for.
RECURSIVE LeafTreeNode(_, _, _)
LeafTreeNode(ps, leafNodeID, fuel) ==
    LET cur == NodeIDToTreeNodeID(ps, leafNodeID)
    IN  IF cur # -1 \/ leafNodeID < 0 \/ fuel = 0 THEN cur
        ELSE IF leafNodeID \in DOMAIN ps.bookkeepingParents
             THEN LeafTreeNode(ps, ps.bookkeepingParents[leafNodeID], fuel - 1)
        ELSE IF \E i \in 2..Len(ps.stack) : ps.stack[i].m_nodeID = leafNodeID
             THEN LeafTreeNode(ps, ps.stack[FindNodeIndex(ps.stack, leafNodeID) - 1].m_nodeID,
                               fuel - 1)
        ELSE -1

RECURSIVE PathToRoot(_, _)
PathToRoot(tree, id) ==
    IF id < 0 THEN {} ELSE {id} \cup PathToRoot(tree, tree[id + 1].parentNodeID)

RECURSIVE Descendants(_, _)
Descendants(tree, id) ==
    {id} \cup UNION {Descendants(tree, tree[id + 1].childNodeIDs[k]) :
                        k \in 1..Len(tree[id + 1].childNodeIDs)}

\* The walk up to the root left out: only the leaf is marked.
MarkedBy_LeafOnly(ps, leafNodeID) == {LeafTreeNode(ps, leafNodeID, Len(Digits))}

MarkedBy(ps, leafNodeID) ==
    LET path == PathToRoot(ps.decompositionTree, LeafTreeNode(ps, leafNodeID, Len(Digits)))
    IN  IF ps.sibTracking
        THEN UNION {Descendants(ps.decompositionTree, id) : id \in path}
        ELSE path

MarkPathSuccess(ps, leafNodeID) ==
    LET marked == MarkedBy(ps, leafNodeID)
    IN  [ps EXCEPT
            !.decompositionTree =
                [i \in 1..Len(@) |->
                    IF @[i].treeNodeID \in marked
                    THEN [@[i] EXCEPT !.isSuccess = TRUE, !.solutionID = ps.currentSolutionID]
                    ELSE @[i]],
            !.currentSolutionID = @ + 1,
            !.gLeaf = LeafTreeNode(ps, leafNodeID, Len(Digits))]

\* The whole tree handed out, unfiltered.
TreeSlice_Unfiltered(ps) == ps.decompositionTree

TreeSlice(ps) ==
    LET thisSolutionID == ps.currentSolutionID - 1
        Mine(tn) == tn.solutionID = thisSolutionID
    IN  SelectSeq(ps.decompositionTree, Mine)


\* ------------------------------------------------------------------------
\* Solutions
\* ------------------------------------------------------------------------
\* The (node, method, condition) choices open on the stack, root first.
RECURSIVE ChoicePath(_, _)
ChoicePath(stack, i) ==
    IF i > Len(stack) THEN <<>>
    ELSE (IF stack[i].method.doc # 0
          THEN <<[node |-> stack[i].m_nodeID, doc |-> stack[i].method.doc,
                  cond |-> stack[i].conditionIndex, u |-> stack[i].method.u,
                  resolutions |-> stack[i].conditionResolutions,
                  facts |-> stack[i].gFacts, ops |-> stack[i].gOps]>>
          ELSE <<>>) \o ChoicePath(stack, i + 1)

\* HtnPlanner::SolutionFromCurrentNode.  first is a copy of the node's operator
\* vector, second shares the node's RuleSet.
SolutionFromCurrentNode(ps, node, complete, path) ==
    [first |-> OpsOf(ps, node), second |-> node.state,
     decompositionTree |-> TreeSlice(ps), highestMemoryUsed |-> ps.highestMemoryUsed,
     gApplied |-> node.gApplied, gComplete |-> complete, gPath |-> path,
     gSkippedOps |-> node.gSkippedOps, gScopes |-> node.gScopes,
     gSolutionID |-> ps.currentSolutionID - 1, gLeaf |-> ps.gLeaf]

\* ------------------------------------------------------------------------
\* NextTask
\* ------------------------------------------------------------------------
\* The task is taken off the queue and given its tree node.
BeginTask(ps) ==
    LET node == SetNodeTask(Top(ps))
    IN  CreateTreeNodeForTask(WithTop(ps, node), node)

NextTaskName(ps) == IF Top(ps).tasks = <<>> THEN "" ELSE Head(Top(ps).tasks).name

\* Empty queue: the node is a leaf and its operators are a plan.
LeafSuccess(ps) ==
    LET node == SetNodeTask(Top(ps))
        noted == [i \in 1..Len(ps.stack) |->
                    IF ps.stack[i].method.doc # 0
                    THEN [ps.stack[i] EXCEPT !.gYielded = @ \cup {ps.stack[i].method.doc}]
                    ELSE ps.stack[i]]
        ps0 == WithTop([ps EXCEPT !.stack = noted], node)
    IN  Return(MarkPathSuccess(ps0, node.m_nodeID), TRUE)

OperatorUnifier(task) == Unify(task, m_operators[task.name].head)

\* The unifier not required to be ground.
OperatorApplies_Unground(task) ==
    /\ task.name \in DOMAIN m_operators
    /\ OperatorUnifier(task).ok

OperatorApplies(task) ==
    /\ task.name \in DOMAIN m_operators
    /\ OperatorUnifier(task).ok
    /\ IsGround(OperatorUnifier(task).u)

\* CheckForOperator adding every operator to the node's list, hidden or not.
CheckForOperator_ShowingHidden(ps) ==
    LET ps0 == BeginTask(ps)
        node == Top(ps0)
        op == m_operators[node.task.name]
        mgu == OperatorUnifier(node.task)
    IN  IF OperatorApplies(node.task)
        THEN LET operatorSubstituted == SubstituteUnifiers(mgu.u, op.head)
                 ps1 == [ps0 EXCEPT
                            !.rs[node.state] = Update(@, SubstituteAll(mgu.u, op.deletions),
                                                      SubstituteAll(mgu.u, op.additions)),
                            !.gRsApplied[node.state] = Append(@, operatorSubstituted)]
                 ps2 == AddToOperators(ps1, operatorSubstituted)
                 ps3 == WithTop(ps2, [Top(ps2) EXCEPT !.gApplied = Append(@, operatorSubstituted)])
             IN  SearchNextNode(RecordOperator(ps3, node.m_nodeID), <<>>,
                                "ReturnFromCheckForOperator")
        ELSE Return(MarkNodeFailed(ps0, node.m_nodeID, -1), FALSE)

\* HtnPlanner::CheckForOperator, for a task that names an operator.
CheckForOperator(ps) ==
    LET ps0 == BeginTask(ps)
        node == Top(ps0)
        op == m_operators[node.task.name]
        mgu == OperatorUnifier(node.task)
    IN  IF OperatorApplies(node.task)
        THEN LET operatorSubstituted == SubstituteUnifiers(mgu.u, op.head)
                 finalRemovals == SubstituteAll(mgu.u, op.deletions)
                 finalAdditions == SubstituteAll(mgu.u, op.additions)
                 ps1 == [ps0 EXCEPT
                            !.rs[node.state] = Update(@, finalRemovals, finalAdditions),
                            !.gRsApplied[node.state] = Append(@, operatorSubstituted)]
                 ps2 == IF ~op.isHidden THEN AddToOperators(ps1, operatorSubstituted) ELSE ps1
                 ps3 == WithTop(ps2, [Top(ps2) EXCEPT !.gApplied = Append(@, operatorSubstituted)])
             IN  SearchNextNode(RecordOperator(ps3, node.m_nodeID), <<>>,
                                "ReturnFromCheckForOperator")
        ELSE Return(MarkNodeFailed(ps0, node.m_nodeID, -1), FALSE)

\* The body run on the node's own RuleSet and operator list, not on copies.
HandleTry_Sharing(ps) ==
    LET ps0 == BeginTask(ps)
        node == Top(ps0)
        tasks == node.task.args \o <<IdTerm("tryEnd", node.m_nodeID)>>
        noted == WithTop(ps0, [node EXCEPT !.gTryEndSeen = FALSE, !.gTrySkipped = FALSE,
                                           !.gFacts = ps0.rs[node.state],
                                           !.gOps = OpsOf(ps0, node),
                                           !.gTryRs = Len(ps0.rs)])
        ps1 == SearchNextNode(noted, tasks, "ReturnFromHandleTryTerm")
    IN  [ps1 EXCEPT !.stack[Len(ps1.stack) - 1].retry = TRUE]

\* try(t1..tk): a backtrackable child runs t1..tk, tryEnd(id); retry is set.
HandleTry(ps) ==
    LET ps0 == BeginTask(ps)
        node == Top(ps0)
        tasks == node.task.args \o <<IdTerm("tryEnd", node.m_nodeID)>>
        noted == WithTop(ps0, [node EXCEPT !.gTryEndSeen = FALSE, !.gTrySkipped = FALSE,
                                           !.gFacts = ps0.rs[node.state],
                                           !.gOps = OpsOf(ps0, node),
                                           !.gTryRs = Len(ps0.rs)])
        ps1 == SearchNextNodeBacktrackable(noted, tasks, "ReturnFromHandleTryTerm")
    IN  [ps1 EXCEPT !.stack[Len(ps1.stack) - 1].retry = TRUE]

PopSiblingScopeIfMatches(ps, n, scopeNodeID) ==
    IF /\ ps.sibTracking
       /\ n.siblingStack # <<>>
       /\ n.siblingStack[Len(n.siblingStack)][1] = scopeNodeID
    THEN [n EXCEPT !.siblingStack = SubSeq(@, 1, Len(@) - 1)]
    ELSE n

\* FindNodeWithID asserts that the node is on the stack.
FailFast(ps) == [ps EXCEPT !.failFast = TRUE]

HandleTryEnd(ps) ==
    LET ps0 == BeginTask(ps)
        node == Top(ps0)
        tryNodeID == IdOf(node.task)
    IN  IF ~NodeOnStack(ps0.stack, tryNodeID) THEN FailFast(ps0)
        ELSE LET k == FindNodeIndex(ps0.stack, tryNodeID)
                 ps1 == [ps0 EXCEPT !.stack[k].retry = FALSE, !.stack[k].gTryEndSeen = TRUE]
             IN  WithTop(ps1, [PopSiblingScopeIfMatches(ps1, Top(ps1), tryNodeID)
                                  EXCEPT !.continuePoint = "NextTask"])

HandleMethodScopeEnd(ps) ==
    LET ps0 == BeginTask(ps)
        node == Top(ps0)
    IN  WithTop(ps0, [PopSiblingScopeIfMatches(ps0, node, IdOf(node.task))
                         EXCEPT !.continuePoint = "NextTask"])

HandleCountAnyOf(ps) ==
    LET ps0 == BeginTask(ps)
        anyOfNodeID == IdOf(Top(ps0).task)
    IN  IF ~NodeOnStack(ps0.stack, anyOfNodeID) THEN FailFast(ps0)
        ELSE LET k == FindNodeIndex(ps0.stack, anyOfNodeID)
                 ps1 == [ps0 EXCEPT !.stack[k].tryAnyOfSuccessCount = @ + 1]
             IN  WithTop(ps1, [Top(ps1) EXCEPT !.continuePoint = "NextTask"])

HandleFailIfNoneOf(ps) ==
    LET ps0 == BeginTask(ps)
        anyOfNodeID == IdOf(Top(ps0).task)
    IN  IF ~NodeOnStack(ps0.stack, anyOfNodeID) THEN FailFast(ps0)
        ELSE IF ps0.stack[FindNodeIndex(ps0.stack, anyOfNodeID)].tryAnyOfSuccessCount = 0
             THEN Return(ps0, FALSE)
        ELSE WithTop(ps0, [Top(ps0) EXCEPT !.continuePoint = "NextTask"])

\* The closing marker put behind the remaining tasks instead of behind t1..tk.
ExpandedTasks_EndLast(scopeID, subtasks, remaining) ==
    <<IdTerm("beginParallel", scopeID)>> \o subtasks \o remaining
    \o <<IdTerm("endParallel", scopeID)>>

ExpandedTasks(scopeID, subtasks, remaining) ==
    <<IdTerm("beginParallel", scopeID)>> \o subtasks
    \o <<IdTerm("endParallel", scopeID)>> \o remaining

\* parallel(t1..tk) is replaced, on the same node, by the two markers around t1..tk.
HandleParallel(ps) ==
    LET ps0 == BeginTask(ps)
        node == Top(ps0)
        scopeID == node.m_nodeID
        expandedTasks == ExpandedTasks(scopeID, node.task.args, node.tasks)
    IN  WithTop(ps0, [node EXCEPT !.tasks = expandedTasks, !.continuePoint = "NextTask",
                                  !.gScopes = Append(@, [id |-> scopeID, body |-> node.task.args,
                                                         begin |-> 0, end |-> 0,
                                                         first |-> Len(node.gApplied) + 1,
                                                         last |-> 0]),
                                  !.gOrigins = [i \in 1..(Len(node.task.args) + 2) |-> NoOrigin]
                                               \o @])

\* The markers go to the operator list as they are; the RuleSet is not touched.
\* gScopes notes where in the list the markers of each parallel() went.
HandleParallelMarker(ps) ==
    LET ps0 == BeginTask(ps)
        ps1 == AddToOperators(ps0, Top(ps0).task)
        node == Top(ps1)
        at == Len(OpsOf(ps1, node))
        isBegin == node.task.name = "beginParallel"
        Open(s) == IF isBegin THEN s.begin = 0 ELSE s.begin # 0 /\ s.end = 0
        mine == {k \in 1..Len(node.gScopes) : Open(node.gScopes[k])}
        k == IF isBegin THEN CHOOSE x \in mine : \A y \in mine : x <= y
             ELSE CHOOSE x \in mine : \A y \in mine : x >= y
        scopes == IF mine = {} THEN node.gScopes
                  ELSE IF isBegin THEN [node.gScopes EXCEPT ![k].begin = at]
                  ELSE [node.gScopes EXCEPT ![k].end = at, ![k].last = Len(node.gApplied)]
    IN  WithTop(ps1, [node EXCEPT !.continuePoint = "NextTask", !.gScopes = scopes])

SpecialTasks == BookkeepingTasks \cup {"try", "parallel"}


\* ------------------------------------------------------------------------
\* Methods
\* ------------------------------------------------------------------------
RECURSIVE SortByDocumentOrder(_)
SortByDocumentOrder(found) ==
    IF found = {} THEN <<>>
    ELSE LET first == CHOOSE f \in found : \A g \in found : f.doc <= g.doc
         IN  <<first>> \o SortByDocumentOrder(found \ {first})

\* The methods sorted the wrong way round.
FindAllMethodsThatUnify_Reversed(goal) ==
    LET sorted == SortByDocumentOrder(
                    {[doc |-> m.documentOrder, u |-> Unify(m.head, goal).u] :
                        m \in {x \in m_methods : Unify(x.head, goal).ok}})
    IN  [i \in 1..Len(sorted) |-> sorted[Len(sorted) + 1 - i]]

\* Every method whose head unifies with the task, sorted with MethodComparer.
FindAllMethodsThatUnify(goal) ==
    SortByDocumentOrder({[doc |-> m.documentOrder, u |-> Unify(m.head, goal).u] :
                            m \in {x \in m_methods : Unify(x.head, goal).ok}})

NoMethodsUnify(ps) ==
    LET ps0 == BeginTask(ps) IN Return(ps0, FALSE)

StartMethods(ps) ==
    LET ps0 == BeginTask(ps)
        node == Top(ps0)
        found == FindAllMethodsThatUnify(node.task)
    IN  WithTop(ps0, [node EXCEPT !.unifiedMethods = found, !.unifiedMethodsSet = TRUE,
                                  !.continuePoint = "NextMethodThatApplies",
                                  !.gUnified = [i \in 1..Len(found) |-> found[i].doc],
                                  !.gFacts = ps0.rs[node.state], !.gOps = OpsOf(ps0, node)])

\* The loop over else methods left out.
SkipElseMethods_None(n) == n

RECURSIVE SkipElseMethods(_)
SkipElseMethods(n) ==
    IF n.method.doc # 0 /\ MethodAt(n.method.doc).isDefault
    THEN SkipElseMethods(SetNextMethodThatUnifies(n))
    ELSE n

\* The else methods skipped without methodHadSolution being reset.
SelectNextMethod_KeepFlag(n) ==
    LET n1 == SetNextMethodThatUnifies(n)
    IN  IF n.methodHadSolution
        THEN SkipElseMethods([n1 EXCEPT !.atLeastOneMethodHadSolution = TRUE])
        ELSE n1

\* The head of the NextMethodThatApplies case: the next method, past the else
\* methods that follow a method which had a solution.
SelectNextMethod(n) ==
    LET n1 == SetNextMethodThatUnifies(n)
    IN  IF n.methodHadSolution
        THEN [SkipElseMethods([n1 EXCEPT !.atLeastOneMethodHadSolution = TRUE])
                EXCEPT !.methodHadSolution = FALSE]
        ELSE n1

DocsOf(ums) == {ums[i].doc : i \in 1..Len(ums)}
NoteSelection(before, after) ==
    [after EXCEPT
        !.gAttempted = IF after.method.doc # 0 THEN @ \cup {after.method.doc} ELSE @,
        !.gSkipped = @ \cup ((DocsOf(before.unifiedMethods) \ DocsOf(after.unifiedMethods))
                             \ {after.method.doc})]

\* A failure as deep and as far as the recorded one taking its place.
RecordFailure_OrEqual(ps, furthestCriteriaFailure, criteriaFailureContext) ==
    LET noted == [ps EXCEPT !.gFailures =
                     Append(@, [depth |-> Len(ps.stack), index |-> furthestCriteriaFailure,
                                context |-> criteriaFailureContext])]
    IN  IF \/ Len(ps.stack) = ps.deepestTaskFailure
              /\ furthestCriteriaFailure >= ps.furthestCriteriaFailure
           \/ Len(ps.stack) > ps.deepestTaskFailure
        THEN [noted EXCEPT !.deepestTaskFailure = Len(ps.stack),
                           !.furthestCriteriaFailure = furthestCriteriaFailure,
                           !.furthestCriteriaFailureContext = criteriaFailureContext]
        ELSE noted

RecordFailure(ps, furthestCriteriaFailure, criteriaFailureContext) ==
    LET noted == [ps EXCEPT !.gFailures =
                     Append(@, [depth |-> Len(ps.stack), index |-> furthestCriteriaFailure,
                                context |-> criteriaFailureContext])]
    IN  IF \/ Len(ps.stack) = ps.deepestTaskFailure
              /\ furthestCriteriaFailure > ps.furthestCriteriaFailure
           \/ Len(ps.stack) > ps.deepestTaskFailure
        THEN [noted EXCEPT !.deepestTaskFailure = Len(ps.stack),
                           !.furthestCriteriaFailure = furthestCriteriaFailure,
                           !.furthestCriteriaFailureContext = criteriaFailureContext]
        ELSE noted

RECURSIVE Flatten(_)
Flatten(ss) == IF ss = <<>> THEN <<>> ELSE Head(ss) \o Flatten(Tail(ss))

\* The context the resolver reports with a failure: the terms of the
\* failureContext(...) goals passed on the way to the goal it failed on.
FailureContext(goals, idx) ==
    IF idx >= 0 /\ idx < Len(goals)
    THEN Flatten([i \in 1..(idx + 1) |->
                    IF goals[i].name = "failureContext" THEN goals[i].args ELSE <<>>])
    ELSE <<>>

BoundSubtasks(n, condition) ==
    SubstituteAll(condition, SubstituteAll(n.method.u, MethodAt(n.method.doc).tasks))

\* Only the first condition binding used.
AllOfSubtasks_FirstOnly(n) == BoundSubtasks(n, n.conditionResolutions[1])

AllOfSubtasks(n) ==
    Flatten([i \in 1..Len(n.conditionResolutions) |->
                BoundSubtasks(n, n.conditionResolutions[i])])

\* The bindings after the first taken from the condition evaluated again on
\* the facts the operators of the first binding's subtasks leave.
HandleAllOf_Reevaluating(ps) ==
    LET n == Top(ps)
        m == MethodAt(n.method.doc)
        first == n.conditionResolutions[1]
        after == Replay(ps.rs[n.state], SelectSeq(BoundSubtasks(n, first), IsOperatorStep))
        again == ResolveAll(after, SubstituteAll(n.method.u, m.condition))
        IsLater(r) == r # first
        later == SelectSeq(again, IsLater)
    IN  SearchNextNodeBacktrackable(
            ps,
            BoundSubtasks(n, first) \o Flatten([i \in 1..Len(later) |-> BoundSubtasks(n, later[i])]),
            "ReturnFromSetOfConditions")

HandleAllOf(ps) ==
    SearchNextNodeBacktrackable(ps, AllOfSubtasks(Top(ps)), "ReturnFromSetOfConditions")

\* The bindings' subtasks not wrapped in try.
AnyOfSubtasks_Unwrapped(n, anyOfNodeID) ==
    Flatten([i \in 1..Len(n.conditionResolutions) |->
                BoundSubtasks(n, n.conditionResolutions[i])
                \o <<IdTerm("countAnyOf", anyOfNodeID)>>])
    \o <<IdTerm("failIfNoneOf", anyOfNodeID)>>

AnyOfSubtasks(n, anyOfNodeID) ==
    [i \in 1..Len(n.conditionResolutions) |->
        T("try", BoundSubtasks(n, n.conditionResolutions[i])
                 \o <<IdTerm("countAnyOf", anyOfNodeID)>>)]
    \o <<IdTerm("failIfNoneOf", anyOfNodeID)>>

\* The bookkeeping tasks naming the node after the child about to be pushed.
HandleAnyOf_NextChild(ps) ==
    LET node == Top(ps)
        anyOfNodeID == ps.nextNodeID + 1
    IN  SearchNextNodeBacktrackable(WithTop(ps, [node EXCEPT !.tryAnyOfSuccessCount = 0]),
                                    AnyOfSubtasks(node, anyOfNodeID),
                                    "ReturnFromSetOfConditions")

HandleAnyOf(ps) ==
    LET node == Top(ps)
        anyOfNodeID == ps.nextNodeID
    IN  SearchNextNodeBacktrackable(WithTop(ps, [node EXCEPT !.tryAnyOfSuccessCount = 0]),
                                    AnyOfSubtasks(node, anyOfNodeID),
                                    "ReturnFromSetOfConditions")

\* The test for a null result of the resolver left out.
ConditionFailed_Never(conditionResolutions) == FALSE

\* node->conditionResolutions == nullptr: the condition has no solution.
ConditionFailed(conditionResolutions) == conditionResolutions = <<>>

\* The NextMethodThatApplies case.
NextMethodThatApplies(ps) ==
    LET node == NoteSelection(Top(ps), SelectNextMethod(Top(ps)))
    IN  IF node.method.doc = 0
        THEN Return(WithTop(ps, node), node.atLeastOneMethodHadSolution)
        ELSE
        LET m == MethodAt(node.method.doc)
            ps1 == RecordMethodChoice(WithTop(ps, node), node.m_nodeID, m.documentOrder)
            substitutedCondition == SubstituteAll(node.method.u, m.condition)
            facts == ps1.rs[node.state]
            currentMemory == dynamicSize(ps1)
            resolverMemory == ResolverMemory(facts, substitutedCondition)
            resolverOutOfMemory ==
                m.condition # <<>> /\ resolverMemory > ps1.memoryBudget - currentMemory
            conditionResolutions ==
                IF m.condition = <<>> THEN << <<>> >>
                ELSE IF resolverOutOfMemory THEN <<>>
                ELSE ResolveAll(facts, substitutedCondition)
            ps2 == IF m.condition = <<>> THEN ps1
                   ELSE CheckHighestMemory(
                            [CheckHighestMemory(ps1, currentMemory)
                                EXCEPT !.gSamples = Append(@, currentMemory)],
                            currentMemory + resolverMemory)
            ps3 == WithTop(ps2, [Top(ps2) EXCEPT !.conditionResolutions = conditionResolutions])
        IN  IF resolverOutOfMemory
            THEN WithTop([ps3 EXCEPT !.outOfMemory = TRUE, !.gBudgetExceeded = TRUE],
                         [Top(ps3) EXCEPT !.continuePoint = "OutOfMemory"])
            ELSE IF ConditionFailed(conditionResolutions)
            THEN LET idx == FurthestFailure(facts, substitutedCondition)
                 IN  RecordFailure(
                        MarkNodeFailed(
                            WithTop(ps3, [Top(ps3) EXCEPT !.continuePoint = "NextMethodThatApplies"]),
                            node.m_nodeID, idx),
                        idx, FailureContext(substitutedCondition, idx))
            ELSE IF m.methodType = Normal
            THEN WithTop(ps3, [Top(ps3) EXCEPT !.continuePoint = "NextNormalMethodCondition"])
            ELSE IF m.methodType = AnySetOf THEN HandleAnyOf(ps3)
            ELSE HandleAllOf(ps3)

\* The NextNormalMethodCondition case.
NextNormalMethodCondition(ps) ==
    LET node == [Top(ps) EXCEPT !.conditionIndex = @ + 1]
    IN  IF ~HasCondition(node)
        THEN WithTop(ps, [node EXCEPT !.continuePoint = "NextMethodThatApplies"])
        ELSE SearchNextNodeBacktrackable(WithTop(ps, node),
                                         BoundSubtasks(node, Condition(node)),
                                         "ReturnFromNextNormalMethodCondition")

ReturnFromNextNormalMethodCondition(ps) ==
    WithTop(ps, [Top(ps) EXCEPT !.methodHadSolution = IF ps.returnValue THEN TRUE ELSE @,
                                !.continuePoint = "NextNormalMethodCondition"])

ReturnFromCheckForOperator(ps) == Return(ps, ps.returnValue)

\* The retry flag not consulted.
SkipTry_Always(returnValue, node) == returnValue = FALSE

\* The try clause is skipped when no solution came back and tryEnd was never reached.
SkipTry(returnValue, node) == returnValue = FALSE /\ node.retry

ReturnFromHandleTryTerm(ps) ==
    LET node == Top(ps)
        \* the operators applied to the RuleSets made since the node took up its try
        appliedInBody ==
            UNION {{ps.gRsApplied[i][k] :
                      k \in (Len(node.gApplied) + 1)..Len(ps.gRsApplied[i])} :
                   i \in (node.gTryRs + 1)..Len(ps.rs)}
    IN  IF SkipTry(ps.returnValue, node)
        THEN WithTop(ps, [PopSiblingScopeIfMatches(ps, node, node.m_nodeID)
                            EXCEPT !.continuePoint = "NextTask", !.gTrySkipped = TRUE,
                                   !.gSkippedOps = @ \cup appliedInBody])
        ELSE Return(ps, ps.returnValue)

ReturnFromSetOfConditions(ps) ==
    WithTop(ps, [Top(ps) EXCEPT !.methodHadSolution = IF ps.returnValue THEN TRUE ELSE @,
                                !.continuePoint = "NextMethodThatApplies"])

\* The Abort case raising the out-of-memory flag as the OutOfMemory case does.
AbortCase_Flagging(ps) ==
    WithTop([ps EXCEPT !.outOfMemory = TRUE], [Top(ps) EXCEPT !.continuePoint = "Fail"])

\* The node left at NextTask, the assignment of Fail forgotten.
OutOfMemoryCase_Resumable(ps) ==
    WithTop([ps EXCEPT !.outOfMemory = TRUE], [Top(ps) EXCEPT !.continuePoint = "NextTask"])

\* The Abort and OutOfMemory cases leave the node in Fail.
AbortCase(ps) == WithTop(ps, [Top(ps) EXCEPT !.continuePoint = "Fail"])
OutOfMemoryCase(ps) ==
    WithTop([ps EXCEPT !.outOfMemory = TRUE], [Top(ps) EXCEPT !.continuePoint = "Fail"])


\* ------------------------------------------------------------------------
\* The planner as a state machine.  One step is one iteration of the
\* dispatch loop of FindNextPlan, or one step of FindPlan / FindAllPlans
\* around it.
\* ------------------------------------------------------------------------
VARIABLES
    ps,               \* the PlanState of the running call
    m_abort,          \* HtnPlanner::m_abort, static
    pc,               \* "FindNextPlan", "returned" (from FindNextPlan), "done"
    api,              \* "FindPlan", "FindAllPlans", or "FindNextPlan" called by hand
    nextSolution,     \* <<>> is nullptr, <<s>> a solution
    finalSolutions,   \* <<>> is nullptr
    returned,         \* what the call handed back to its caller
    gInitialFacts,    \* the facts of the caller's RuleSet when the call began
    gFound,           \* the complete solutions, in the order they were found
    gAbortSeen,       \* the Abort case has run
    gCallsAfterAbort, \* calls of FindNextPlan made after the Abort case has run
    domain,           \* the operators registered with a planner (AddOperator)
    par,              \* a run of PlanParallelizer::Parallelize
    calc              \* an evaluation of is(X, /(left, right))

plannerVars == <<ps, m_abort, pc, api, nextSolution, finalSolutions, returned,
                 gInitialFacts, gFound, gAbortSeen, gCallsAfterAbort>>
OtherParts == <<domain, par, calc>>
vars == <<plannerVars, OtherParts>>

\* The values of the parts a specification does not exercise.
NoDomain == [m_operators |-> {}, gAdded |-> <<>>]
NoPlan == [plan |-> <<>>, i |-> 0, result |-> <<>>, currentTimestep |-> 0,
           currentScope |-> -1, scopeStartIndex |-> -1, returned |-> TRUE]
NoCalc == [pc |-> "idle"]

\* PlanState::PlanState
PlanState(initialFacts, initialGoals, memoryBudgetArg, siblingTracking) ==
    [furthestCriteriaFailure |-> -1, deepestTaskFailure |-> -1,
     furthestCriteriaFailureContext |-> <<>>,
     highestMemoryUsed |-> 0, initialState |-> 1, memoryBudget |-> memoryBudgetArg,
     nextNodeID |-> 1, nextTreeNodeID |-> 1, returnValue |-> FALSE,
     stack |-> <<PlanNode(0, 1, initialGoals, 0, <<>>)>>,
     currentSolutionID |-> 0,
     decompositionTree |->
        <<DecompTreeNode(0, 0, -1, IF Len(initialGoals) > 0 THEN initialGoals[1] ELSE K(""))>>,
     nodeIDToLastTreeNodeID |-> Put(EmptyMap, 0, 0),
     bookkeepingParents |-> EmptyMap,
     rs |-> <<initialFacts>>, opv |-> <<>>, sharedSize |-> 0, gRsApplied |-> << <<>> >>,
     gBudgetExceeded |-> FALSE, gFailures |-> <<>>, gLeaf |-> -1, gSamples |-> <<>>,
     gLastPop |-> <<>>, gCall |-> 1,
     outOfMemory |-> FALSE, sibTracking |-> siblingTracking, failFast |-> FALSE]

Budgets == {LowBudget, MidBudget, HighBudget}

Init ==
    /\ \E p \in Problems, b \in Budgets, sib \in BOOLEAN :
          \E keep \in SUBSET (1..Len(p.optional)) :
              /\ gInitialFacts = p.base \o Pick(p.optional, keep, 1)
              /\ ps = PlanState(p.base \o Pick(p.optional, keep, 1), p.goals, b, sib)
    /\ api \in {"FindPlan", "FindAllPlans", "FindNextPlan"}
    /\ m_abort = 0
    /\ pc = "FindNextPlan"
    /\ nextSolution = <<>>
    /\ finalSolutions = <<>>
    /\ returned = [solutions |-> <<>>, highestMemoryUsedReturn |-> -1,
                   furthestFailureIndex |-> -1, furthestFailureContext |-> <<>>]
    /\ gFound = <<>>
    /\ gAbortSeen = FALSE
    /\ gCallsAfterAbort = 0
    /\ domain = NoDomain /\ par = NoPlan /\ calc = NoCalc

Dispatching == pc = "FindNextPlan" /\ ps.stack # <<>> /\ ~ps.failFast
ContinuePoint == IF m_abort # 0 THEN "Abort" ELSE Top(ps).continuePoint
Dispatch(point) == Dispatching /\ ContinuePoint = point

Driver == <<m_abort, api, finalSolutions, returned, gInitialFacts, OtherParts>>
Quiet == <<pc, nextSolution, gFound, gAbortSeen, gCallsAfterAbort>>

\* A step of the loop that goes round again.
Continue(next) == ps' = next /\ UNCHANGED <<Driver, Quiet>>

\* HtnPlanner::Abort(), from another thread.
Abort ==
    /\ m_abort = 0
    /\ pc # "done"
    /\ m_abort' = 1
    /\ UNCHANGED <<ps, pc, api, nextSolution, finalSolutions, returned,
                   gInitialFacts, OtherParts, gFound, gAbortSeen, gCallsAfterAbort>>

\* HtnPlanner::HtnPlanner(): constructing any planner clears the static flag.
NewPlanner ==
    /\ m_abort # 0
    /\ pc # "done"
    /\ m_abort' = 0
    /\ UNCHANGED <<ps, pc, api, nextSolution, finalSolutions, returned,
                   gInitialFacts, OtherParts, gFound, gAbortSeen, gCallsAfterAbort>>

FindNextPlan_StackEmpty ==
    /\ pc = "FindNextPlan" /\ ps.stack = <<>> /\ ~ps.failFast
    /\ nextSolution' = <<>>
    /\ pc' = "returned"
    /\ UNCHANGED <<ps, Driver, gFound, gAbortSeen, gCallsAfterAbort>>

Case_Fail ==
    /\ Dispatch("Fail")
    /\ Continue(FailFast(ps))

Case_Abort ==
    /\ Dispatch("Abort")
    /\ ps' = AbortCase(ps)
    /\ nextSolution' = <<SolutionFromCurrentNode(ps', Top(ps'), FALSE, ChoicePath(ps.stack, 1))>>
    /\ pc' = "returned"
    /\ gAbortSeen' = TRUE
    /\ UNCHANGED <<Driver, gFound, gCallsAfterAbort>>

\* The OutOfMemory case returning null instead of the partial solution.
Case_OutOfMemory_Null ==
    /\ Dispatch("OutOfMemory")
    /\ ps' = OutOfMemoryCase(ps)
    /\ nextSolution' = <<>>
    /\ pc' = "returned"
    /\ UNCHANGED <<Driver, gFound, gAbortSeen, gCallsAfterAbort>>

Case_OutOfMemory ==
    /\ Dispatch("OutOfMemory")
    /\ ps' = OutOfMemoryCase(ps)
    /\ nextSolution' = <<SolutionFromCurrentNode(ps', Top(ps'), FALSE, ChoicePath(ps.stack, 1))>>
    /\ pc' = "returned"
    /\ UNCHANGED <<Driver, gFound, gAbortSeen, gCallsAfterAbort>>

NextTask_Leaf ==
    /\ Dispatch("NextTask")
    /\ Top(ps).tasks = <<>>
    /\ ps' = LeafSuccess(ps)
    /\ nextSolution' = <<SolutionFromCurrentNode(ps', SetNodeTask(Top(ps)), TRUE,
                                                 ChoicePath(ps.stack, 1))>>
    /\ gFound' = Append(gFound, nextSolution'[1])
    /\ pc' = "returned"
    /\ UNCHANGED <<Driver, gAbortSeen, gCallsAfterAbort>>

NextTask_Operator ==
    /\ Dispatch("NextTask")
    /\ NextTaskName(ps) \in DOMAIN m_operators
    /\ Continue(CheckForOperator(ps))

NextTask_Try ==
    /\ Dispatch("NextTask")
    /\ NextTaskName(ps) = "try"
    /\ Continue(HandleTry(ps))

NextTask_TryEnd ==
    /\ Dispatch("NextTask")
    /\ NextTaskName(ps) = "tryEnd"
    /\ Continue(HandleTryEnd(ps))

NextTask_MethodScopeEnd ==
    /\ Dispatch("NextTask")
    /\ NextTaskName(ps) = "methodScopeEnd"
    /\ Continue(HandleMethodScopeEnd(ps))

NextTask_CountAnyOf ==
    /\ Dispatch("NextTask")
    /\ NextTaskName(ps) = "countAnyOf"
    /\ Continue(HandleCountAnyOf(ps))

NextTask_FailIfNoneOf ==
    /\ Dispatch("NextTask")
    /\ NextTaskName(ps) = "failIfNoneOf"
    /\ Continue(HandleFailIfNoneOf(ps))

NextTask_Parallel ==
    /\ Dispatch("NextTask")
    /\ NextTaskName(ps) = "parallel"
    /\ Continue(HandleParallel(ps))

NextTask_ParallelMarker ==
    /\ Dispatch("NextTask")
    /\ NextTaskName(ps) \in {"beginParallel", "endParallel"}
    /\ Continue(HandleParallelMarker(ps))

IsMethodTask(ps0) ==
    /\ Top(ps0).tasks # <<>>
    /\ NextTaskName(ps0) \notin DOMAIN m_operators
    /\ NextTaskName(ps0) \notin SpecialTasks

NextTask_NoMethods ==
    /\ Dispatch("NextTask")
    /\ IsMethodTask(ps)
    /\ FindAllMethodsThatUnify(Head(Top(ps).tasks)) = <<>>
    /\ Continue(NoMethodsUnify(ps))

NextTask_Methods ==
    /\ Dispatch("NextTask")
    /\ IsMethodTask(ps)
    /\ FindAllMethodsThatUnify(Head(Top(ps).tasks)) # <<>>
    /\ Continue(StartMethods(ps))

Case_NextMethodThatApplies ==
    /\ Dispatch("NextMethodThatApplies")
    /\ Continue(NextMethodThatApplies(ps))

Case_NextNormalMethodCondition ==
    /\ Dispatch("NextNormalMethodCondition")
    /\ Continue(NextNormalMethodCondition(ps))

Case_ReturnFromNextNormalMethodCondition ==
    /\ Dispatch("ReturnFromNextNormalMethodCondition")
    /\ Continue(ReturnFromNextNormalMethodCondition(ps))

Case_ReturnFromCheckForOperator ==
    /\ Dispatch("ReturnFromCheckForOperator")
    /\ Continue(ReturnFromCheckForOperator(ps))

Case_ReturnFromHandleTryTerm ==
    /\ Dispatch("ReturnFromHandleTryTerm")
    /\ Continue(ReturnFromHandleTryTerm(ps))

Case_ReturnFromSetOfConditions ==
    /\ Dispatch("ReturnFromSetOfConditions")
    /\ Continue(ReturnFromSetOfConditions(ps))

\* FindPlan returns what the one call of FindNextPlan returned.
FindPlan_Return ==
    /\ api = "FindPlan" /\ pc = "returned"
    /\ returned' = [returned EXCEPT !.solutions = nextSolution]
    /\ pc' = "done"
    /\ UNCHANGED <<ps, m_abort, api, nextSolution, finalSolutions, gInitialFacts, OtherParts,
                   gFound, gAbortSeen, gCallsAfterAbort>>

\* The body of the while loop of FindAllPlans, when it goes round again.
FindAllPlans_Collect ==
    /\ api = "FindAllPlans" /\ pc = "returned"
    /\ nextSolution # <<>>
    /\ Len(finalSolutions) < MaxSolutions
    /\ finalSolutions' = Append(finalSolutions, nextSolution[1])
    /\ ~ps.outOfMemory
    /\ pc' = "FindNextPlan"
    /\ gCallsAfterAbort' = IF gAbortSeen THEN gCallsAfterAbort + 1 ELSE gCallsAfterAbort
    /\ UNCHANGED <<ps, m_abort, api, nextSolution, returned, gInitialFacts, OtherParts, gFound,
                   gAbortSeen>>

\* The furthest condition index reported where the deepest stack index should be.
FindAllPlansReturns_Furthest(solutions) ==
    [solutions |-> solutions, highestMemoryUsedReturn |-> ps.highestMemoryUsed,
     furthestFailureIndex |-> IF solutions = <<>> THEN ps.furthestCriteriaFailure
                              ELSE returned.furthestFailureIndex,
     furthestFailureContext |-> IF solutions = <<>> THEN ps.furthestCriteriaFailureContext
                                ELSE returned.furthestFailureContext]

FindAllPlansReturns(solutions) ==
    [solutions |-> solutions, highestMemoryUsedReturn |-> ps.highestMemoryUsed,
     furthestFailureIndex |-> IF solutions = <<>> THEN ps.deepestTaskFailure
                              ELSE returned.furthestFailureIndex,
     furthestFailureContext |-> IF solutions = <<>> THEN ps.furthestCriteriaFailureContext
                                ELSE returned.furthestFailureContext]

\* The plans collected so far thrown away when the loop breaks out of memory.
FindAllPlans_OutOfMemory_Discarding ==
    /\ api = "FindAllPlans" /\ pc = "returned"
    /\ nextSolution # <<>>
    /\ Len(finalSolutions) < MaxSolutions
    /\ finalSolutions' = <<nextSolution[1]>>
    /\ ps.outOfMemory
    /\ returned' = FindAllPlansReturns(finalSolutions')
    /\ pc' = "done"
    /\ UNCHANGED <<ps, m_abort, api, nextSolution, gInitialFacts, OtherParts, gFound, gAbortSeen,
                   gCallsAfterAbort>>

\* The loop going round again although the factory is out of memory.
FindAllPlans_OutOfMemory_NoBreak ==
    /\ api = "FindAllPlans" /\ pc = "returned"
    /\ nextSolution # <<>>
    /\ Len(finalSolutions) < MaxSolutions
    /\ finalSolutions' = Append(finalSolutions, nextSolution[1])
    /\ ps.outOfMemory
    /\ pc' = "FindNextPlan"
    /\ UNCHANGED <<ps, m_abort, api, nextSolution, returned, gInitialFacts, OtherParts, gFound,
                   gAbortSeen, gCallsAfterAbort>>

\* The body of the while loop of FindAllPlans, when it breaks out of memory.
FindAllPlans_OutOfMemory ==
    /\ api = "FindAllPlans" /\ pc = "returned"
    /\ nextSolution # <<>>
    /\ Len(finalSolutions) < MaxSolutions
    /\ finalSolutions' = Append(finalSolutions, nextSolution[1])
    /\ ps.outOfMemory
    /\ returned' = FindAllPlansReturns(finalSolutions')
    /\ pc' = "done"
    /\ UNCHANGED <<ps, m_abort, api, nextSolution, gInitialFacts, OtherParts, gFound, gAbortSeen,
                   gCallsAfterAbort>>

FindAllPlans_Return ==
    /\ api = "FindAllPlans" /\ pc = "returned"
    /\ nextSolution = <<>>
    /\ returned' = FindAllPlansReturns(finalSolutions)
    /\ pc' = "done"
    /\ UNCHANGED <<ps, m_abort, api, nextSolution, finalSolutions, gInitialFacts, OtherParts, gFound,
                   gAbortSeen, gCallsAfterAbort>>

\* A caller that keeps the PlanState and calls FindNextPlan itself, again
\* after every solution it is handed, until it is handed null.
Caller_FindNextPlan ==
    /\ api = "FindNextPlan" /\ pc = "returned"
    /\ nextSolution # <<>>
    /\ Len(finalSolutions) < MaxSolutions
    /\ finalSolutions' = Append(finalSolutions, nextSolution[1])
    /\ pc' = "FindNextPlan"
    /\ UNCHANGED <<ps, m_abort, api, nextSolution, returned, gInitialFacts, OtherParts, gFound,
                   gAbortSeen, gCallsAfterAbort>>

Caller_Done ==
    /\ api = "FindNextPlan" /\ pc = "returned"
    /\ nextSolution = <<>>
    /\ returned' = [returned EXCEPT !.solutions = finalSolutions]
    /\ pc' = "done"
    /\ UNCHANGED <<ps, m_abort, api, nextSolution, finalSolutions, gInitialFacts, OtherParts, gFound,
                   gAbortSeen, gCallsAfterAbort>>

Next ==
    \/ Abort
    \/ NewPlanner
    \/ FindNextPlan_StackEmpty
    \/ Case_Fail
    \/ Case_Abort
    \/ Case_OutOfMemory
    \/ NextTask_Leaf
    \/ NextTask_Operator
    \/ NextTask_Try
    \/ NextTask_TryEnd
    \/ NextTask_MethodScopeEnd
    \/ NextTask_CountAnyOf
    \/ NextTask_FailIfNoneOf
    \/ NextTask_Parallel
    \/ NextTask_ParallelMarker
    \/ NextTask_NoMethods
    \/ NextTask_Methods
    \/ Case_NextMethodThatApplies
    \/ Case_NextNormalMethodCondition
    \/ Case_ReturnFromNextNormalMethodCondition
    \/ Case_ReturnFromCheckForOperator
    \/ Case_ReturnFromHandleTryTerm
    \/ Case_ReturnFromSetOfConditions
    \/ FindPlan_Return
    \/ FindAllPlans_Collect
    \/ FindAllPlans_OutOfMemory
    \/ FindAllPlans_Return
    \/ Caller_FindNextPlan
    \/ Caller_Done

Spec == Init /\ [][Next]_vars


\* ------------------------------------------------------------------------
\* Properties
\* ------------------------------------------------------------------------
\* The solutions the caller has been or is being handed.
Solutions ==
    {finalSolutions[i] : i \in 1..Len(finalSolutions)}
    \cup {nextSolution[i] : i \in 1..Len(nextSolution)}

NoHidden(steps) == SelectSeq(steps, IsVisible) = steps

\* C1 as stated: executing the plan of a returned solution on the initial
\* facts, each operator's deletions then its additions, in plan order, gives
\* exactly the facts of the RuleSet returned with the solution.
C1_PlanReplayGivesFinalState ==
    \A sol \in Solutions : Replay(gInitialFacts, sol.first) = ps.rs[sol.second]

\* C1, amended: the facts returned with a solution are the initial facts after
\* every operator applied to that RuleSet, hidden ones included, in the order
\* applied; the plan of a complete solution is exactly the operators among
\* them that are not hidden, in that order; and when none of them is hidden
\* the plan of any solution is all of them, so that executing it gives the
\* returned facts.
C1_AppliedReplayGivesFinalState ==
    \A sol \in Solutions :
        LET applied == ps.gRsApplied[sol.second]
            plan == SelectSeq(sol.first, IsOperatorStep)
        IN  /\ Replay(gInitialFacts, applied) = ps.rs[sol.second]
            /\ sol.gComplete => /\ applied = sol.gApplied
                                /\ plan = SelectSeq(applied, IsVisible)
            /\ NoHidden(applied) => /\ plan = applied
                                    /\ Replay(gInitialFacts, sol.first) = ps.rs[sol.second]

\* A complete plan was returned whose branch applied a hidden operator.
C1_Witness ==
    \E sol \in Solutions :
        /\ sol.gComplete
        /\ sol.first # <<>>
        /\ ~NoHidden(ps.gRsApplied[sol.second])


\* ------------------------------------------------------------------------
\* else methods
\* ------------------------------------------------------------------------
IsElse(doc) == MethodAt(doc).isDefault

\* Position in unified of the nearest method before position j that is not
\* an else method (1 when there is none).
GroupStart(unified, j) ==
    IF \E k \in 1..(j - 1) : ~IsElse(unified[k])
    THEN CHOOSE k \in 1..(j - 1) :
            ~IsElse(unified[k]) /\ \A l \in (k + 1)..(j - 1) : IsElse(unified[l])
    ELSE 1

\* The methods that precede position j in its contiguous else group.
GroupBefore(unified, j) == {unified[k] : k \in GroupStart(unified, j)..(j - 1)}

\* The methods of the node that the iteration has already gone past or is on.
Decided(n) == {n.gUnified[j] : j \in 1..Len(n.gUnified)} \ DocsOf(n.unifiedMethods)

\* C2: on every node, an else method the iteration has reached was attempted
\* if and only if no method before it in its contiguous else group yielded a
\* solution; otherwise it was skipped.
C2_ElseAttemptedIffGroupFailed ==
    \A i \in 1..Len(ps.stack) :
        LET n == ps.stack[i]
        IN  \A j \in 1..Len(n.gUnified) :
                (IsElse(n.gUnified[j]) /\ n.gUnified[j] \in Decided(n)) =>
                    /\ (n.gUnified[j] \in n.gAttempted)
                         <=> (GroupBefore(n.gUnified, j) \cap n.gYielded = {})
                    /\ (n.gUnified[j] \in n.gSkipped) <=> (n.gUnified[j] \notin n.gAttempted)

\* A node where one else method was attempted after its group had failed and
\* another was skipped after a method of its group had yielded a solution.
C2_Witness ==
    \E i \in 1..Len(ps.stack) :
        LET n == ps.stack[i]
        IN  /\ \E d \in n.gAttempted : IsElse(d) /\ d \in n.gYielded
            /\ \E d \in n.gSkipped : IsElse(d)

\* ------------------------------------------------------------------------
\* try
\* ------------------------------------------------------------------------
TryFailed == Dispatch("ReturnFromHandleTryTerm") /\ ~ps.returnValue /\ ps' # ps

\* C3: when the body of a try dispatched on node N comes back failed, N goes
\* on with its remaining tasks, the body skipped, if no decomposition of the
\* body reached tryEnd(N); if one did, N is popped and the failure goes up.
C3_TrySkippedIffTryEndNeverReached ==
    [][TryFailed =>
          IF Top(ps).gTryEndSeen
          THEN /\ ps'.stack = SubSeq(ps.stack, 1, Len(ps.stack) - 1)
               /\ ps'.returnValue = FALSE
          ELSE /\ Len(ps'.stack) = Len(ps.stack)
               /\ Top(ps').continuePoint = "NextTask"
               /\ Top(ps').tasks = Top(ps).tasks
               /\ Top(ps').state = Top(ps).state
               /\ ps'.rs = ps.rs
               /\ OpsOf(ps', Top(ps')) = OpsOf(ps, Top(ps))]_vars

\* The body of a try failed before its tryEnd and the node went on without it.
C3_Witness ==
    /\ ps.stack # <<>>
    /\ Top(ps).task.name = "try"
    /\ Top(ps).gTrySkipped
    /\ Top(ps).continuePoint = "NextTask"


\* ------------------------------------------------------------------------
\* Out of memory and abort
\* ------------------------------------------------------------------------
IsComplete(sol) == sol.gComplete

\* C4: when FindAllPlans returns from a search in which the memory budget was
\* exceeded, the out-of-memory flag is set and the complete plans of the list
\* it returns are all the complete plans found, in the order they were found.
C4_OutOfMemoryKeepsFoundPlans ==
    (api = "FindAllPlans" /\ pc = "done" /\ ps.gBudgetExceeded) =>
        /\ ps.outOfMemory
        /\ SelectSeq(returned.solutions, IsComplete) = gFound

\* FindAllPlans has returned out of memory with a complete plan found before.
C4_Witness ==
    /\ api = "FindAllPlans" /\ pc = "done"
    /\ ps.gBudgetExceeded
    /\ gFound # <<>>

\* C5: once the Abort case has run, FindAllPlans does not call FindNextPlan
\* again.
C5_NoCallAfterAbort == gCallsAfterAbort = 0

NoTaskDispatched ==
    /\ Len(ps'.stack) = Len(ps.stack)
    /\ ps'.stack = [ps.stack EXCEPT ![Len(ps.stack)].continuePoint = "Fail"]
    /\ ps'.rs = ps.rs
    /\ ps'.opv = ps.opv
    /\ ps'.nextNodeID = ps.nextNodeID
    /\ ps'.decompositionTree = ps.decompositionTree

\* C6: with the abort flag set, the next iteration of the loop of FindNextPlan
\* dispatches no task and returns, as a partial solution, the operators and
\* the RuleSet of the node on top of the stack; it does not set the
\* out-of-memory flag.
C6_AbortReturnsAtNextIteration ==
    [][(Dispatching /\ m_abort # 0 /\ m_abort' # 0 /\ ps' # ps) =>
          /\ pc' = "returned"
          /\ NoTaskDispatched
          /\ Len(nextSolution') = 1
          /\ nextSolution'[1].first = OpsOf(ps, Top(ps))
          /\ nextSolution'[1].second = Top(ps).state
          /\ ps'.outOfMemory = ps.outOfMemory]_vars

\* FindNextPlan has returned from the Abort case, in the middle of a task
\* list, with operators already on the node.
C6_Witness ==
    /\ pc = "returned" /\ gAbortSeen /\ m_abort # 0
    /\ ps.stack # <<>>
    /\ Top(ps).continuePoint = "Fail"
    /\ ~ps.outOfMemory
    /\ Top(ps).tasks # <<>>
    /\ nextSolution # <<>> /\ nextSolution[1].first # <<>>


\* ------------------------------------------------------------------------
\* Decomposition-tree slices
\* ------------------------------------------------------------------------
TreeNodeIDs(slice) == {slice[k].treeNodeID : k \in 1..Len(slice)}
SolutionIDs(slice) == {slice[k].solutionID : k \in 1..Len(slice)}

\* C7 as stated: the slices of two solutions of one FindAllPlans call have no
\* treeNodeID in common.
C7_SlicesShareNoTreeNodeID ==
    api = "FindAllPlans" =>
        \A i, j \in 1..Len(finalSolutions) :
            i < j => TreeNodeIDs(finalSolutions[i].decompositionTree)
                     \cap TreeNodeIDs(finalSolutions[j].decompositionTree) = {}

\* The parentNodeID of the entry with this treeNodeID in a slice.
ParentIn(slice, id) ==
    LET k == CHOOSE k \in 1..Len(slice) : slice[k].treeNodeID = id
    IN  slice[k].parentNodeID

\* C7, amended: the slices of two complete solutions of one FindAllPlans call
\* are told apart by their solutionID, not by their treeNodeIDs: every entry
\* of a slice carries the solutionID of its solution, a later solution has a
\* larger solutionID, and each slice holds with an entry its parent entry, up
\* to a top-level one, so an entry the two slices have in common (tagged again
\* by the later leaf-to-root marking) brings all its ancestors with it.
C7_SlicesTaggedApartShareRoot ==
    api = "FindAllPlans" =>
        \A i, j \in 1..Len(finalSolutions) :
            (i < j /\ finalSolutions[i].gComplete /\ finalSolutions[j].gComplete) =>
                LET si == finalSolutions[i].decompositionTree
                    sj == finalSolutions[j].decompositionTree
                    common == TreeNodeIDs(si) \cap TreeNodeIDs(sj)
                IN  /\ SolutionIDs(si) = {i - 1}
                    /\ SolutionIDs(sj) = {j - 1}
                    /\ \A id \in TreeNodeIDs(si) :
                           ParentIn(si, id) \in TreeNodeIDs(si) \cup {-1}
                    /\ \A id \in TreeNodeIDs(sj) :
                           ParentIn(sj, id) \in TreeNodeIDs(sj) \cup {-1}
                    /\ \A id \in common :
                           /\ ParentIn(si, id) = ParentIn(sj, id)
                           /\ ParentIn(si, id) \in common \cup {-1}

\* FindAllPlans has collected two complete solutions whose slices have an
\* entry in common.
C7_Witness ==
    /\ api = "FindAllPlans"
    /\ Len(finalSolutions) >= 2
    /\ finalSolutions[1].gComplete /\ finalSolutions[2].gComplete
    /\ TreeNodeIDs(finalSolutions[1].decompositionTree)
         \cap TreeNodeIDs(finalSolutions[2].decompositionTree) # {}


\* ------------------------------------------------------------------------
\* allOf and anyOf
\* ------------------------------------------------------------------------
\* The subtasks of the method chosen in path entry e, for one condition binding.
TasksFor(e, binding) == SubstituteAll(binding, SubstituteAll(e.u, MethodAt(e.doc).tasks))

\* In this domain an operator subtask always applies and need(x) succeeds
\* exactly when ok(x) is a fact; no operator of the subtasks removes ok(x).
Succeed(facts, tasks) ==
    \A k \in 1..Len(tasks) :
        tasks[k].name = "need" => InSeq(T("ok", tasks[k].args), facts)

OperatorsOf(tasks) == SelectSeq(tasks, IsOperatorStep)

RECURSIVE OperatorsOfSucceeding(_, _, _)
OperatorsOfSucceeding(e, facts, k) ==
    IF k > Len(e.resolutions) THEN <<>>
    ELSE (IF Succeed(facts, TasksFor(e, e.resolutions[k]))
          THEN OperatorsOf(TasksFor(e, e.resolutions[k])) ELSE <<>>)
         \o OperatorsOfSucceeding(e, facts, k + 1)

IsPrefix(a, b) == Len(a) <= Len(b) /\ SubSeq(b, 1, Len(a)) = a

SetOfEntries(sol, type) ==
    {k \in 1..Len(sol.gPath) : MethodAt(sol.gPath[k].doc).methodType = type}

\* The nodes that have tried a method of the type keep the facts and the
\* operators they had when the task was taken up.
NoPartialEffects(type) ==
    \A i \in 1..Len(ps.stack) :
        LET n == ps.stack[i]
        IN  (\E d \in n.gAttempted : MethodAt(d).methodType = type) =>
                /\ ps.rs[n.state] = n.gFacts
                /\ OpsOf(ps, n) = n.gOps

\* C8: a complete solution through an allOf method exists only when the
\* subtasks of every condition binding succeed; its plan then continues the
\* operators the node had with the operators of the subtasks of all bindings,
\* in binding order; and a node that tried an allOf method still has the facts
\* and operators it had before, whatever the method did.
C8_AllOfTakesEveryBindingInOrder ==
    /\ \A sol \in Solutions : sol.gComplete =>
          \A k \in SetOfEntries(sol, AllSetOf) :
              LET e == sol.gPath[k]
              IN  /\ \A b \in 1..Len(e.resolutions) :
                        Succeed(e.facts, TasksFor(e, e.resolutions[b]))
                  /\ IsPrefix(e.ops \o OperatorsOf(Flatten([b \in 1..Len(e.resolutions) |->
                                          TasksFor(e, e.resolutions[b])])),
                              sol.first)
    /\ NoPartialEffects(AllSetOf)

\* A complete solution went through an allOf method with two bindings.
C8_Witness ==
    \E sol \in Solutions :
        /\ sol.gComplete
        /\ \E k \in SetOfEntries(sol, AllSetOf) : Len(sol.gPath[k].resolutions) = 2

AnyOfReturned ==
    /\ pc = "FindNextPlan" /\ ps.stack # <<>>
    /\ Top(ps).continuePoint = "ReturnFromSetOfConditions"
    /\ Top(ps).method.doc # 0
    /\ MethodAt(Top(ps).method.doc).methodType = AnySetOf

TopEntry == ChoicePath(<<Top(ps)>>, 1)[1]

\* C9: the child of an anyOf method comes back with a solution if and only if
\* the subtasks of at least one condition binding succeed; the plan of a
\* complete solution through the method continues the operators the node had
\* with the operators of the succeeding bindings only, in binding order, and
\* the facts returned hold nothing a failing binding's operators added.
C9_AnyOfTakesSucceedingBindingsInOrder ==
    /\ AnyOfReturned =>
          (ps.returnValue <=>
              \E b \in 1..Len(TopEntry.resolutions) :
                  Succeed(TopEntry.facts, TasksFor(TopEntry, TopEntry.resolutions[b])))
    /\ \A sol \in Solutions : sol.gComplete =>
          \A k \in SetOfEntries(sol, AnySetOf) :
              LET e == sol.gPath[k]
              IN  /\ IsPrefix(e.ops \o OperatorsOfSucceeding(e, e.facts, 1), sol.first)
                  /\ \A b \in 1..Len(e.resolutions) :
                        LET tasks == TasksFor(e, e.resolutions[b])
                        IN  ~Succeed(e.facts, tasks) =>
                               \A o \in 1..Len(OperatorsOf(tasks)) :
                                  ~InSeq(OperatorsOf(tasks)[o], sol.first)
                                  /\ Replay(<<>>, <<OperatorsOf(tasks)[o]>>)[1]
                                       \notin {ps.rs[sol.second][f] :
                                                 f \in 1..Len(ps.rs[sol.second])}
    /\ NoPartialEffects(AnySetOf)

\* A complete solution went through an anyOf method of which one binding
\* failed and a later one succeeded.
C9_Witness ==
    \E sol \in Solutions :
        /\ sol.gComplete
        /\ \E k \in SetOfEntries(sol, AnySetOf) :
              LET e == sol.gPath[k]
              IN  /\ Len(e.resolutions) = 2
                  /\ ~Succeed(e.facts, TasksFor(e, e.resolutions[1]))
                  /\ Succeed(e.facts, TasksFor(e, e.resolutions[2]))


\* ------------------------------------------------------------------------
\* Order of the solutions
\* ------------------------------------------------------------------------
Choice(e) == [node |-> e.node, doc |-> e.doc, cond |-> e.cond]

\* First position at which two choice paths differ (0 when there is none).
FirstDifference(p, q) ==
    IF \E k \in 1..Len(p) : k <= Len(q) /\ Choice(p[k]) # Choice(q[k])
    THEN CHOOSE k \in 1..Len(p) :
            /\ k <= Len(q) /\ Choice(p[k]) # Choice(q[k])
            /\ \A l \in 1..(k - 1) : Choice(p[l]) = Choice(q[l])
    ELSE 0

\* p is explored before q: at the node where they part, p takes the method
\* that is earlier in document order, or the same method with an earlier
\* condition binding.
ExploredBefore(p, q) ==
    LET k == FirstDifference(p, q)
    IN  /\ k # 0
        /\ p[k].node = q[k].node
        /\ \/ p[k].doc < q[k].doc
           \/ p[k].doc = q[k].doc /\ p[k].cond < q[k].cond

CompleteSolutions == SelectSeq(finalSolutions, IsComplete)

\* C10: the complete solutions FindAllPlans has collected are in depth-first
\* order: of two of them, the earlier one took, at the task where they part,
\* the method earlier in document order or, with the same method, the earlier
\* condition binding, counted in the order the resolver returned them; the
\* plan of a solution continues with the operators of the subtasks under the
\* binding chosen, and the unifying methods of a task are in document order.
C10_SolutionsInDepthFirstOrder ==
    api = "FindAllPlans" =>
        /\ \A i, j \in 1..Len(CompleteSolutions) :
              i < j => ExploredBefore(CompleteSolutions[i].gPath, CompleteSolutions[j].gPath)
        /\ \A i \in 1..Len(CompleteSolutions) :
              \A k \in 1..Len(CompleteSolutions[i].gPath) :
                  LET e == CompleteSolutions[i].gPath[k]
                      m == MethodAt(e.doc)
                  IN  m.methodType = Normal =>
                         IsPrefix(e.ops \o SelectSeq(OperatorsOf(TasksFor(e,
                                                        e.resolutions[e.cond + 1])), IsVisible),
                                  CompleteSolutions[i].first)
        /\ \A n \in 1..Len(ps.stack) :
              \A a, b \in 1..Len(ps.stack[n].gUnified) :
                  a < b => ps.stack[n].gUnified[a] < ps.stack[n].gUnified[b]

\* Three complete solutions: two bindings of one method, then a later method.
C10_Witness ==
    /\ api = "FindAllPlans"
    /\ Len(CompleteSolutions) = 3
    /\ LET p1 == CompleteSolutions[1].gPath
           p2 == CompleteSolutions[2].gPath
           p3 == CompleteSolutions[3].gPath
       IN  /\ p1[FirstDifference(p1, p2)].doc = p2[FirstDifference(p1, p2)].doc
           /\ p2[FirstDifference(p2, p3)].doc < p3[FirstDifference(p2, p3)].doc


\* ------------------------------------------------------------------------
\* Operators
\* ------------------------------------------------------------------------
OperatorStep ==
    /\ Dispatch("NextTask") /\ NextTaskName(ps) \in DOMAIN m_operators
    /\ ps' # ps

\* C11: a task that names an operator is applied only when the operator's
\* head unifies with it and the unifier is ground: the node's RuleSet gets the
\* substituted deletions and additions and a child is pushed.  Otherwise the
\* node is popped with a false return value and no RuleSet and no operator
\* list has changed.
C11_OperatorAppliedOnlyWhenGround ==
    [][OperatorStep =>
          LET node == Top(ps)
              task == Head(node.tasks)
              op == m_operators[task.name]
              mgu == Unify(task, op.head)
          IN  IF mgu.ok /\ IsGround(mgu.u)
              THEN /\ Len(ps'.stack) = Len(ps.stack) + 1
                   /\ ps'.rs[node.state] =
                         Update(ps.rs[node.state], SubstituteAll(mgu.u, op.deletions),
                                SubstituteAll(mgu.u, op.additions))
                   /\ \A i \in 1..Len(ps.rs) : i # node.state => ps'.rs[i] = ps.rs[i]
                   /\ ~op.isHidden =>
                         OpsOf(ps', Top(ps')) =
                            Append(OpsOf(ps, node), SubstituteUnifiers(mgu.u, op.head))
              ELSE /\ ps'.stack = SubSeq(ps.stack, 1, Len(ps.stack) - 1)
                   /\ ps'.returnValue = FALSE
                   /\ ps'.rs = ps.rs
                   /\ ps'.opv = ps.opv]_vars

\* An operator task whose unifier was not ground has failed its node, after
\* an operator had been applied.
C11_Witness ==
    /\ ~ps.returnValue
    /\ ps.opv # <<>>
    /\ \E k \in 1..Len(ps.decompositionTree) :
          LET tn == ps.decompositionTree[k]
          IN  /\ tn.isFailed
              /\ tn.taskName.name \in DOMAIN m_operators
              /\ Unify(tn.taskName, m_operators[tn.taskName.name].head).ok
              /\ ~IsGroundTerm(tn.taskName)


\* ------------------------------------------------------------------------
\* No solution
\* ------------------------------------------------------------------------
\* The search ran to its end: never out of memory, never aborted.
Exhausted == pc = "done" /\ ~ps.outOfMemory /\ ~ps.gBudgetExceeded /\ ~gAbortSeen

Covers(f, g) == f.depth > g.depth \/ (f.depth = g.depth /\ f.index >= g.index)

\* The first failure told to RecordFailure among the deepest ones and, of
\* those, the ones furthest in their condition.
DeepestFailure(failures) ==
    failures[CHOOSE i \in 1..Len(failures) :
                /\ \A j \in 1..Len(failures) : Covers(failures[i], failures[j])
                /\ \A j \in 1..(i - 1) : failures[j].depth # failures[i].depth
                                          \/ failures[j].index # failures[i].index]

\* C12: when a search that ran to its end found no complete plan, FindPlan
\* and FindAllPlans return null, and FindAllPlans hands out the stack depth
\* of the deepest condition failure of the search and the failure context of
\* that failure (-1 and no context when no condition failed).
C12_NoSolutionReturnsNullAndDeepestFailure ==
    (Exhausted /\ gFound = <<>> /\ api \in {"FindPlan", "FindAllPlans"}) =>
        /\ returned.solutions = <<>>
        /\ api = "FindAllPlans" =>
              IF ps.gFailures = <<>>
              THEN /\ returned.furthestFailureIndex = -1
                   /\ returned.furthestFailureContext = <<>>
              ELSE /\ returned.furthestFailureIndex = DeepestFailure(ps.gFailures).depth
                   /\ returned.furthestFailureContext = DeepestFailure(ps.gFailures).context

\* FindAllPlans has returned null after a condition failure deep in the
\* stack, which had a failure context, and later ones nearer the root.
C12_Witness ==
    /\ Exhausted /\ gFound = <<>> /\ api = "FindAllPlans"
    /\ returned.solutions = <<>>
    /\ returned.furthestFailureContext # <<>>
    /\ returned.furthestFailureIndex > 1
    /\ \E i, j \in 1..Len(ps.gFailures) :
          i < j /\ ps.gFailures[j].depth < ps.gFailures[i].depth


\* ------------------------------------------------------------------------
\* After an out-of-memory return
\* ------------------------------------------------------------------------
Last(s) == s[Len(s)]

\* C13: when FindAllPlans returns with the out-of-memory flag set, the list
\* it returns is not null and its last element is a partial plan: the operator
\* list of the node the search stood on, which holds the operators applied on
\* the path to that node that are not hidden.
C13_OutOfMemoryEndsWithPartialPlan ==
    (api = "FindAllPlans" /\ pc = "done" /\ ps.outOfMemory) =>
        /\ returned.solutions # <<>>
        /\ ~Last(returned.solutions).gComplete
        /\ Last(returned.solutions).first = OpsOf(ps, Top(ps))
        /\ SelectSeq(Last(returned.solutions).first, IsOperatorStep)
             = SelectSeq(Top(ps).gApplied, IsVisible)

\* FindAllPlans has returned out of memory without a complete plan, the
\* partial plan holding operators.
C13_Witness ==
    /\ api = "FindAllPlans" /\ pc = "done" /\ ps.outOfMemory
    /\ gFound = <<>>
    /\ Len(returned.solutions) = 1
    /\ returned.solutions[1].first # <<>>

\* FindNextPlan has been called again after it returned a partial solution
\* with the out-of-memory flag set.
CalledAfterOutOfMemory ==
    /\ pc = "FindNextPlan" /\ ps.stack # <<>> /\ ~ps.failFast
    /\ ps.outOfMemory
    /\ nextSolution # <<>> /\ ~nextSolution[1].gComplete

\* C14: a call of FindNextPlan made after an out-of-memory return takes no
\* search step and finds no plan: with the abort flag clear it stops in the
\* Fail case, a fatal assertion; with the abort flag set it returns the same
\* partial solution again.  The stack, the RuleSets, the operator lists and
\* the tree stay as they were.
C14_NoSearchAfterOutOfMemory ==
    [][(CalledAfterOutOfMemory /\ <<ps, pc, nextSolution>>' # <<ps, pc, nextSolution>>) =>
          /\ gFound' = gFound
          /\ nextSolution' = nextSolution
          /\ ps'.stack = ps.stack
          /\ ps'.rs = ps.rs /\ ps'.opv = ps.opv
          /\ ps'.decompositionTree = ps.decompositionTree
          /\ ps'.nextNodeID = ps.nextNodeID
          /\ IF m_abort = 0 THEN ps'.failFast /\ pc' = pc
             ELSE ~ps'.failFast /\ pc' = "returned"]_vars

\* A call made after an out-of-memory return has stopped in the Fail case.
C14_Witness ==
    /\ api = "FindNextPlan" /\ pc = "FindNextPlan"
    /\ ps.outOfMemory /\ ps.failFast /\ ~gAbortSeen
    /\ Len(finalSolutions) >= 2
    /\ ~Last(finalSolutions).gComplete


\* ------------------------------------------------------------------------
\* Hidden operators
\* ------------------------------------------------------------------------
HiddenStep ==
    /\ OperatorStep
    /\ m_operators[NextTaskName(ps)].isHidden
    /\ Len(ps'.stack) > Len(ps.stack)

\* C15: applying a hidden operator removes its substituted deletions from
\* the node's RuleSet and appends its substituted additions, as for any
\* operator, and leaves every operator list as it was; no operator list of a
\* returned solution holds the head of a hidden operator.
C15_HiddenOperatorChangesStateNotPlan ==
    /\ [][HiddenStep =>
             LET node == Top(ps)
                 op == m_operators[NextTaskName(ps)]
                 mgu == Unify(Head(node.tasks), op.head)
             IN  /\ ps'.rs[node.state] =
                       Update(ps.rs[node.state], SubstituteAll(mgu.u, op.deletions),
                              SubstituteAll(mgu.u, op.additions))
                 /\ ps'.rs[node.state] # ps.rs[node.state]
                 /\ ps'.opv = ps.opv
                 /\ OpsOf(ps', Top(ps')) = OpsOf(ps, node)]_vars
    /\ [](\A sol \in Solutions :
             \A k \in 1..Len(sol.first) :
                 sol.first[k].name \in DOMAIN m_operators
                    => ~m_operators[sol.first[k].name].isHidden)

\* A complete solution is returned whose facts hold what a hidden operator
\* added and whose plan holds another operator, applied after it.
C15_Witness ==
    \E sol \in Solutions :
        /\ sol.gComplete
        /\ sol.first # <<>>
        /\ \E k \in 1..Len(sol.gApplied) :
              /\ m_operators[sol.gApplied[k].name].isHidden
              /\ k < Len(sol.gApplied)
              /\ \A a \in 1..Len(ApplyOperator(<<>>, sol.gApplied[k])) :
                    InSeq(ApplyOperator(<<>>, sol.gApplied[k])[a], ps.rs[sol.second])


\* ------------------------------------------------------------------------
\* Skipped try bodies
\* ------------------------------------------------------------------------
Additions(step) == ApplyOperator(<<>>, step)
Deletions(step) ==
    SubstituteAll(Unify(step, m_operators[step.name].head).u, m_operators[step.name].deletions)

\* C16: a node that has skipped the failed body of its try has the facts and
\* the operator list it had when it took up the try; and of an operator
\* applied inside a skipped body and not applied outside it, a complete
\* solution found afterwards has neither the head in its plan nor an
\* addition in its facts, and still has every initial fact it deleted that
\* no applied operator deletes.
C16_SkippedTryLeavesNoEffect ==
    /\ \A i \in 1..Len(ps.stack) :
          LET n == ps.stack[i]
          IN  (n.task.name = "try" /\ n.gTrySkipped) =>
                  /\ ps.rs[n.state] = n.gFacts
                  /\ OpsOf(ps, n) = n.gOps
    /\ \A sol \in Solutions : sol.gComplete =>
          \A o \in sol.gSkippedOps :
              ~InSeq(o, sol.gApplied) =>
                  /\ ~InSeq(o, sol.first)
                  /\ \A a \in 1..Len(Additions(o)) :
                        InSeq(Additions(o)[a], ps.rs[sol.second])
                           => \E k \in 1..Len(sol.gApplied) :
                                  InSeq(Additions(o)[a], Additions(sol.gApplied[k]))
                  /\ \A d \in 1..Len(Deletions(o)) :
                        (/\ InSeq(Deletions(o)[d], gInitialFacts)
                         /\ \A k \in 1..Len(sol.gApplied) :
                               ~InSeq(Deletions(o)[d], Deletions(sol.gApplied[k])))
                           => InSeq(Deletions(o)[d], ps.rs[sol.second])

\* A complete solution found after the body of a try had deleted a fact,
\* added one, failed and been skipped.
C16_Witness ==
    \E sol \in Solutions :
        /\ sol.gComplete
        /\ sol.first # <<>>
        /\ \E o \in sol.gSkippedOps :
              /\ ~InSeq(o, sol.gApplied)
              /\ Additions(o) # <<>>
              /\ \E d \in 1..Len(Deletions(o)) : InSeq(Deletions(o)[d], gInitialFacts)


\* ------------------------------------------------------------------------
\* allOf bindings are fixed at method selection
\* ------------------------------------------------------------------------
ConditionOf(e) == SubstituteAll(e.u, MethodAt(e.doc).condition)

\* The facts after the operators among the subtasks of one binding.
AfterBinding(e, binding) == Replay(e.facts, OperatorsOf(TasksFor(e, binding)))

\* C17: the bindings of an allOf method are the solutions of its condition
\* against the facts the node had when the method was selected, and the plan
\* of a complete solution through the method goes on with the operators of
\* the subtasks of every one of them, in order, whatever the subtasks of an
\* earlier binding did to the facts the condition reads.
C17_AllOfBindingsFixedAtSelection ==
    \A sol \in Solutions : sol.gComplete =>
        \A k \in SetOfEntries(sol, AllSetOf) :
            LET e == sol.gPath[k]
                fixed == ResolveAll(e.facts, ConditionOf(e))
            IN  /\ e.resolutions = fixed
                /\ IsPrefix(e.ops \o OperatorsOf(Flatten([b \in 1..Len(fixed) |->
                                                            TasksFor(e, fixed[b])])),
                            sol.first)

\* A complete solution through an allOf method with two bindings, where the
\* subtasks of the first binding left facts on which the condition no longer
\* has the second binding and has a new one.
C17_Witness ==
    \E sol \in Solutions :
        /\ sol.gComplete
        /\ \E k \in SetOfEntries(sol, AllSetOf) :
              LET e == sol.gPath[k]
                  again == ResolveAll(AfterBinding(e, e.resolutions[1]), ConditionOf(e))
              IN  /\ Len(e.resolutions) = 2
                  /\ ~InSeq(e.resolutions[2], again)
                  /\ \E j \in 1..Len(again) : ~InSeq(again[j], e.resolutions)


\* ------------------------------------------------------------------------
\* anyOf and allOf methods whose condition has no solution
\* ------------------------------------------------------------------------
IsSetOf(doc) == MethodAt(doc).methodType \in {AllSetOf, AnySetOf}

\* The NextMethodThatApplies case selects an anyOf or allOf method whose
\* condition has no solution on the node's facts.
SetOfWithoutSolution ==
    /\ Dispatch("NextMethodThatApplies")
    /\ ps' # ps /\ ~ps'.outOfMemory
    /\ LET sel == SelectNextMethod(Top(ps))
       IN  /\ sel.method.doc # 0
           /\ IsSetOf(sel.method.doc)
           /\ ResolveAll(ps.rs[sel.state],
                         SubstituteAll(sel.method.u, MethodAt(sel.method.doc).condition)) = <<>>

RECURSIVE ChainMarked(_, _, _)
ChainMarked(slice, id, sid) ==
    \E k \in 1..Len(slice) :
        /\ slice[k].treeNodeID = id
        /\ slice[k].isSuccess
        /\ slice[k].solutionID = sid
        /\ \/ slice[k].parentNodeID = -1
           \/ ChainMarked(slice, slice[k].parentNodeID, sid)

RECURSIVE ChainLength(_, _)
ChainLength(slice, id) ==
    IF id = -1 THEN 0 ELSE 1 + ChainLength(slice, ParentIn(slice, id))

C20_NoDuplicateTreeEntries ==
    \A sol \in Solutions :
        LET slice == sol.decompositionTree
        IN  \A i, j \in 1..Len(slice) :
                i < j => /\ slice[i].treeNodeID # slice[j].treeNodeID
                         /\ ~(/\ slice[i].nodeID = slice[j].nodeID
                              /\ slice[i].taskName = slice[j].taskName)


\* ------------------------------------------------------------------------
\* Tree parents of the subtasks of a method
\* ------------------------------------------------------------------------
\* C21 as stated: every subtask produced by a method application has, as tree
\* parent, the tree node of the task that the method decomposed.
C21_SubtasksShareMethodParent ==
    \A k \in 1..Len(ps.decompositionTree) :
        LET e == ps.decompositionTree[k]
        IN  e.gOrigin # NoOrigin => e.parentNodeID = e.gOrigin[1]


\* ------------------------------------------------------------------------
\* The high-water mark of memory
\* ------------------------------------------------------------------------
\* ps.gSamples holds the dynamicSize measurements of the call, in order.
AtLeastEverySample(highest) ==
    \A k \in 1..Len(ps.gSamples) : highest >= ps.gSamples[k]

\* C22: the highest memory used is at least every dynamicSize measurement of
\* the call so far, the first one included, and so is the value reported with
\* a solution just returned and the value FindAllPlans hands back; the highest
\* memory used never decreases.
C22_HighestMemoryIsHighWaterMark ==
    /\ [][ps'.highestMemoryUsed >= ps.highestMemoryUsed]_vars
    /\ [](/\ AtLeastEverySample(ps.highestMemoryUsed)
          /\ (pc = "returned" /\ nextSolution # <<>>) =>
                AtLeastEverySample(nextSolution[1].highestMemoryUsed)
          /\ (pc = "done" /\ api = "FindAllPlans") =>
                AtLeastEverySample(returned.highestMemoryUsedReturn))

\* FindAllPlans has handed back the highest memory used of a search that took
\* several measurements, the first of them positive and the last one below
\* the highest.
C22_Witness ==
    /\ pc = "done" /\ api = "FindAllPlans"
    /\ Len(ps.gSamples) >= 3
    /\ ps.gSamples[1] > 0
    /\ returned.highestMemoryUsedReturn > Last(ps.gSamples)


\* ------------------------------------------------------------------------
\* else methods: what the skipping looks at
\* ------------------------------------------------------------------------
\* Position in unified of the nearest method before position j that was
\* attempted, 0 when there is none.
AttemptedBefore(n, j) ==
    LET earlier == {k \in 1..(j - 1) : n.gUnified[k] \in n.gAttempted}
    IN  IF earlier = {} THEN 0 ELSE CHOOSE k \in earlier : \A l \in earlier : l <= k

MethodSelection == Dispatch("NextMethodThatApplies") /\ ps' # ps

\* C28: on every node, an else method the iteration has reached was skipped
\* exactly when the method attempted immediately before it had yielded a
\* solution; so an else method whose nearest attempted predecessor is a method
\* that is not an else method and yielded no solution was attempted, whatever
\* the methods before that one yielded; and the step that selects the next
\* method leaves methodHadSolution cleared on the node, having noted a set
\* flag in atLeastOneMethodHadSolution.
C28_ElseSkippingLooksAtPreviousMethodOnly ==
    /\ [][MethodSelection =>
             LET i == Len(ps.stack)
             IN  (Len(ps'.stack) >= i /\ ps'.stack[i].m_nodeID = Top(ps).m_nodeID) =>
                     /\ ~ps'.stack[i].methodHadSolution
                     /\ Top(ps).methodHadSolution => ps'.stack[i].atLeastOneMethodHadSolution]_vars
    /\ [](\A i \in 1..Len(ps.stack) :
             LET n == ps.stack[i]
             IN  \A j \in 1..Len(n.gUnified) :
                     (IsElse(n.gUnified[j]) /\ n.gUnified[j] \in Decided(n)) =>
                         LET k == AttemptedBefore(n, j)
                         IN  /\ (n.gUnified[j] \in n.gSkipped)
                                  <=> (k # 0 /\ n.gUnified[k] \in n.gYielded)
                             /\ (k # 0 /\ ~IsElse(n.gUnified[k])
                                       /\ n.gUnified[k] \notin n.gYielded)
                                    => n.gUnified[j] \in n.gAttempted)

\* A node where a method yielded a solution, the else methods after it were
\* skipped, a later method that is not an else method was attempted and
\* yielded none, and the else method after that one was attempted.
C28_Witness ==
    \E i \in 1..Len(ps.stack) :
        LET n == ps.stack[i]
        IN  \E a, b, c, d \in 1..Len(n.gUnified) :
                /\ a < b /\ b < c /\ c < d
                /\ n.gUnified[a] \in n.gYielded
                /\ IsElse(n.gUnified[b]) /\ n.gUnified[b] \in n.gSkipped
                /\ ~IsElse(n.gUnified[c]) /\ n.gUnified[c] \in n.gAttempted \ n.gYielded
                /\ AttemptedBefore(n, d) = c
                /\ IsElse(n.gUnified[d]) /\ n.gUnified[d] \in n.gAttempted

\* ------------------------------------------------------------------------
\* parallel(t1..tk) in the plan
\* ------------------------------------------------------------------------
\* A solution's gScopes has one entry per parallel() task expanded on its
\* branch: the scope id, t1..tk, the places of its two markers in the operator
\* list, and the stretch first..last of the operators applied from the
\* expansion to the closing marker.
IsMarker(step) == step.name \in {"beginParallel", "endParallel"}
MarkerPlaces(plan) == {i \in 1..Len(plan) : IsMarker(plan[i])}
AllOperatorTasks(tasks) ==
    \A i \in 1..Len(tasks) : tasks[i].name \in DOMAIN m_operators /\ IsGroundTerm(tasks[i])

ScopeInPlan(sol, s) ==
    LET plan == sol.first
    IN  /\ 0 < s.begin /\ s.begin < s.end /\ s.end <= Len(plan)
        /\ plan[s.begin] = IdTerm("beginParallel", s.id)
        /\ plan[s.end] = IdTerm("endParallel", s.id)
        /\ s.first <= s.last + 1 /\ s.last <= Len(sol.gApplied)
        /\ SelectSeq(SubSeq(plan, s.begin + 1, s.end - 1), IsOperatorStep)
               = SelectSeq(SubSeq(sol.gApplied, s.first, s.last), IsVisible)
        /\ SelectSeq(SubSeq(plan, 1, s.begin - 1), IsOperatorStep)
               = SelectSeq(SubSeq(sol.gApplied, 1, s.first - 1), IsVisible)
        /\ AllOperatorTasks(s.body) => SubSeq(sol.gApplied, s.first, s.last) = s.body

MarkerStep ==
    /\ Dispatch("NextTask")
    /\ NextTaskName(ps) \in {"beginParallel", "endParallel"}
    /\ ps' # ps

\* C24: in every complete plan each parallel(t1..tk) expanded on the plan's
\* branch has exactly one beginParallel(id) and, after it, one endParallel(id)
\* with the same id, and the plan has no other markers; the operators of the
\* plan between the two are the operators applied for t1..tk that are not
\* hidden, in the order applied (t1..tk themselves when they are operators),
\* and those before the opening marker are the ones applied before the
\* expansion; the step that takes up a marker appends it to the operator list
\* and leaves the node's RuleSet, every RuleSet and the applied operators alone.
C24_ParallelMarkersBracketSubtasks ==
    /\ [][MarkerStep =>
             /\ ps'.rs = ps.rs
             /\ Top(ps').state = Top(ps).state
             /\ Top(ps').gApplied = Top(ps).gApplied
             /\ Len(ps'.stack) = Len(ps.stack)
             /\ OpsOf(ps', Top(ps')) = Append(OpsOf(ps, Top(ps)), Head(Top(ps).tasks))]_vars
    /\ [](\A sol \in Solutions :
             sol.gComplete =>
                 /\ \A k \in 1..Len(sol.gScopes) : ScopeInPlan(sol, sol.gScopes[k])
                 /\ MarkerPlaces(sol.first)
                        = UNION {{sol.gScopes[k].begin, sol.gScopes[k].end} :
                                     k \in 1..Len(sol.gScopes)}
                 /\ Cardinality(MarkerPlaces(sol.first)) = 2 * Len(sol.gScopes))

\* A complete plan with two parallel() tasks: the first one's subtasks were a
\* method and a hidden operator, and operators follow its closing marker.
C24_Witness ==
    \E sol \in Solutions :
        /\ sol.gComplete
        /\ Len(sol.gScopes) = 2
        /\ ~AllOperatorTasks(sol.gScopes[1].body)
        /\ sol.gScopes[1].last > sol.gScopes[1].first
        /\ sol.gScopes[1].end < Len(sol.first) - 1

\* ------------------------------------------------------------------------
\* The Fail continuePoint
\* ------------------------------------------------------------------------
\* C30: in a FindPlan or FindAllPlans call the dispatch loop is never about to
\* take up a node whose continuePoint is Fail, whatever FindNextPlan returned
\* before: a solution, a partial solution on out of memory or on abort.
C30_FailNeverDispatched ==
    api \in {"FindPlan", "FindAllPlans"} => ~Dispatch("Fail")

\* ------------------------------------------------------------------------
\* FindAllPlans left to run: no Abort() from another thread, and the thread
\* of the call keeps being scheduled.  The problems are those of Init and two
\* whose methods recurse without bound, under the budgets that the model's
\* node ids can follow to the end.
\* ------------------------------------------------------------------------
RecursiveProblems ==
    { Problem(<<K("spin")>>, <<>>, <<>>),
      Problem(<<K("climb")>>, <<>>, <<>>) }

LiveInit ==
    /\ \E sib \in BOOLEAN :
          \/ \E p \in Problems, b \in Budgets :
                \E keep \in SUBSET (1..Len(p.optional)) :
                    /\ gInitialFacts = p.base \o Pick(p.optional, keep, 1)
                    /\ ps = PlanState(p.base \o Pick(p.optional, keep, 1), p.goals, b, sib)
          \/ \E p \in RecursiveProblems, b \in {LowBudget, MidBudget} :
                /\ gInitialFacts = p.base
                /\ ps = PlanState(p.base, p.goals, b, sib)
    /\ api = "FindAllPlans"
    /\ m_abort = 0
    /\ pc = "FindNextPlan"
    /\ nextSolution = <<>>
    /\ finalSolutions = <<>>
    /\ returned = [solutions |-> <<>>, highestMemoryUsedReturn |-> -1,
                   furthestFailureIndex |-> -1, furthestFailureContext |-> <<>>]
    /\ gFound = <<>>
    /\ gAbortSeen = FALSE
    /\ gCallsAfterAbort = 0
    /\ domain = NoDomain /\ par = NoPlan /\ calc = NoCalc

LiveNext ==
    \/ FindNextPlan_StackEmpty
    \/ Case_OutOfMemory
    \/ NextTask_Leaf
    \/ NextTask_Operator
    \/ NextTask_Try
    \/ NextTask_TryEnd
    \/ NextTask_MethodScopeEnd
    \/ NextTask_CountAnyOf
    \/ NextTask_FailIfNoneOf
    \/ NextTask_Parallel
    \/ NextTask_ParallelMarker
    \/ NextTask_NoMethods
    \/ NextTask_Methods
    \/ Case_NextMethodThatApplies
    \/ Case_NextNormalMethodCondition
    \/ Case_ReturnFromNextNormalMethodCondition
    \/ Case_ReturnFromCheckForOperator
    \/ Case_ReturnFromHandleTryTerm
    \/ Case_ReturnFromSetOfConditions
    \/ FindAllPlans_Collect
    \/ FindAllPlans_OutOfMemory
    \/ FindAllPlans_Return

\* The states in which the call has a step to take: the dispatch loop on a
\* node that is not in Fail or on the empty stack, and the loop of
\* FindAllPlans with what FindNextPlan returned.
Running ==
    \/ /\ pc = "FindNextPlan" /\ ~ps.failFast
       /\ (ps.stack = <<>> \/ ContinuePoint \notin {"Fail", "Abort"})
    \/ /\ pc = "returned"
       /\ (nextSolution = <<>> \/ Len(finalSolutions) < MaxSolutions)

\* The call runs on one thread, which is never held up for good.  For the
\* dispatch loop this is weak fairness of LiveNext with its enabling condition
\* written out as Running: a call that stays able to take a step goes on
\* taking steps.
Scheduled == <>[]Running => []<><<LiveNext>>_vars

LiveSpec ==
    /\ LiveInit /\ [][LiveNext]_vars
    /\ Scheduled
    /\ WF_vars(FindAllPlans_Collect)
    /\ WF_vars(FindAllPlans_OutOfMemory)
    /\ WF_vars(FindAllPlans_Return)

\* C29: with the abort flag never set, every FindAllPlans call, whatever its
\* budget and also when the methods of its task recurse without bound, comes
\* to its return.
C29_FindAllPlansTerminates ==
    /\ [](m_abort = 0)
    /\ <>(pc = "done")

\* FindAllPlans has returned from a task whose method calls the task again:
\* the budget was exceeded several levels down, after complete plans had been
\* found.
C29_Witness ==
    /\ pc = "done" /\ api = "FindAllPlans"
    /\ ps.outOfMemory
    /\ \E sol \in Solutions : sol.gComplete
    /\ Cardinality({k \in 1..Len(ps.decompositionTree) :
                       ps.decompositionTree[k].taskName = K("climb")}) >= 3

\* ------------------------------------------------------------------------
\* The operators of a planner: HtnPlanner::AddOperator and ClearAll.
\* m_operators is a std::map from head name to operator, modelled as the set
\* of its (name, operator) pairs; domain.gAdded lists the operators handed to
\* AddOperator since the last ClearAll.
\* ------------------------------------------------------------------------
MaxAddCalls == 3

\* The planner with no call running.
PlannerIdle ==
    /\ ps = PlanState(<<>>, <<>>, HighBudget, FALSE)
    /\ m_abort = 0 /\ pc = "done" /\ api = "FindPlan"
    /\ nextSolution = <<>> /\ finalSolutions = <<>>
    /\ returned = [solutions |-> <<>>, highestMemoryUsedReturn |-> -1,
                   furthestFailureIndex |-> -1, furthestFailureContext |-> <<>>]
    /\ gInitialFacts = <<>> /\ gFound = <<>> /\ gAbortSeen = FALSE
    /\ gCallsAfterAbort = 0

\* The operators a caller may register: two head names, each with several
\* definitions.
OperatorChoices ==
    {Op(T(n, <<V("?v")>>), d, <<T("item", <<V("?v")>>)>>, hid) :
        n \in {"trace", "swap"}, d \in {<<>>, <<T("ok", <<V("?v")>>)>>}, hid \in BOOLEAN}

\* An insert that keeps every pair, as a multimap does.
MapInsert_Multi(map, key, value) == map \cup {[name |-> key, op |-> value]}

\* std::map::insert: nothing is inserted when the key is already there.
MapInsert(map, key, value) ==
    IF \E e \in map : e.name = key THEN map
    ELSE map \cup {[name |-> key, op |-> value]}

\* The operator is created and handed back whether or not the insert kept it.
AddOperator(d, op) ==
    [d EXCEPT !.m_operators = MapInsert(@, op.head.name, op),
              !.gAdded = Append(@, op)]

ClearAll(d) == [d EXCEPT !.m_operators = {}, !.gAdded = <<>>]

\* What AllOperators enumerates, and what m_operators.find(name) can return.
AllOperators(d) == {e.op : e \in d.m_operators}
VisibleAs(d, name) == {e.op : e \in {x \in d.m_operators : x.name = name}}

DomainInit == PlannerIdle /\ domain = NoDomain /\ par = NoPlan /\ calc = NoCalc

AddOperator_Call ==
    /\ Len(domain.gAdded) < MaxAddCalls
    /\ \E op \in OperatorChoices : domain' = AddOperator(domain, op)
    /\ UNCHANGED <<plannerVars, par, calc>>

ClearAll_Call ==
    /\ domain.gAdded # <<>>
    /\ domain' = ClearAll(domain)
    /\ UNCHANGED <<plannerVars, par, calc>>

DomainNext == AddOperator_Call \/ ClearAll_Call

DomainSpec == DomainInit /\ [][DomainNext]_vars

\* The first operator registered under this name since the last ClearAll.
FirstAdded(d, name) ==
    LET k == CHOOSE k \in 1..Len(d.gAdded) :
                 /\ d.gAdded[k].head.name = name
                 /\ \A j \in 1..(k - 1) : d.gAdded[j].head.name # name
    IN  d.gAdded[k]

\* C23: a second AddOperator with a head name already registered is not
\* refused, but only one operator of that name is visible to the planner: the
\* one registered first.
C23_OneOperatorPerNameVisible ==
    \A k \in 1..Len(domain.gAdded) :
        LET name == domain.gAdded[k].head.name
        IN  /\ Cardinality(VisibleAs(domain, name)) = 1
            /\ VisibleAs(domain, name) = {FirstAdded(domain, name)}

\* Two different operators were registered under one head name.
C23_Witness ==
    \E j, k \in 1..Len(domain.gAdded) :
        /\ j < k
        /\ domain.gAdded[j].head.name = domain.gAdded[k].head.name
        /\ domain.gAdded[j] # domain.gAdded[k]
        /\ AllOperators(domain) # {}

\* ------------------------------------------------------------------------
\* PlanParallelizer: timesteps for a plan with beginParallel/endParallel.
\* Indexes are the C++ ones (from 0); result[k + 1] is the C++ result[k].
\* A result entry's gAt is the place in the plan its operator came from.
\* ------------------------------------------------------------------------
MaxPlanLen == 8
MaxDepth == 2

Tokens == {"swap", "trace", "beginParallel", "endParallel"}
RECURSIVE DepthAfter(_, _)
DepthAfter(tokens, k) ==
    IF k = 0 THEN 0
    ELSE DepthAfter(tokens, k - 1)
         + (IF tokens[k] = "beginParallel" THEN 1
            ELSE IF tokens[k] = "endParallel" THEN -1 ELSE 0)

\* Markers as the planner leaves them in a complete plan: every scope closed,
\* scopes one after another or one inside another.
WellBracketed(tokens) ==
    /\ \A k \in 1..Len(tokens) : DepthAfter(tokens, k) \in 0..MaxDepth
    /\ DepthAfter(tokens, Len(tokens)) = 0

\* The closing marker of the scope opened at b, and the opening one of e.
MatchingEnd(tokens, b) ==
    CHOOSE e \in (b + 1)..Len(tokens) :
        /\ DepthAfter(tokens, e) = DepthAfter(tokens, b) - 1
        /\ \A x \in (b + 1)..(e - 1) : DepthAfter(tokens, x) >= DepthAfter(tokens, b)
MatchingBegin(tokens, e) ==
    CHOOSE b \in 1..(e - 1) : tokens[b] = "beginParallel" /\ MatchingEnd(tokens, b) = e

OperatorsBefore(tokens, k) ==
    Cardinality({x \in 1..(k - 1) : tokens[x] \in {"swap", "trace"}})

PlanOf(tokens) ==
    [k \in 1..Len(tokens) |->
        CASE tokens[k] = "swap" -> Fa("swap", "b")
          [] tokens[k] = "trace" -> Fa("trace", "z")
          [] tokens[k] = "beginParallel" ->
                 IdTerm("beginParallel", OperatorsBefore(tokens, k))
          [] OTHER ->
                 IdTerm("endParallel", OperatorsBefore(tokens, MatchingBegin(tokens, k)))]

Plans(maxLen) ==
    UNION {{PlanOf(tokens) : tokens \in {s \in [1..n -> Tokens] : WellBracketed(s)}} :
               n \in 0..maxLen}

\* operatorDefs.find(name): the definition, or nothing.
OperatorDef(name) == IF name \in DOMAIN m_operators THEN <<m_operators[name]>> ELSE <<>>
TermNames(terms) == {terms[k].name : k \in 1..Len(terms)}

HasDependency(opA, opB) ==
    IF opA = <<>> \/ opB = <<>> THEN FALSE
    ELSE \/ TermNames(opA[1].additions) \cap TermNames(opB[1].deletions) # {}
         \/ TermNames(opA[1].deletions) \cap TermNames(opB[1].additions) # {}
         \/ TermNames(opA[1].deletions) \cap TermNames(opB[1].deletions) # {}

\* deps[j]: the operators of the scope before j that j depends on.
Deps(ops, scopeStart, n) ==
    [j \in 0..(n - 1) |->
        {i \in 0..(j - 1) : HasDependency(OperatorDef(ops[scopeStart + i + 1].op.name),
                                          OperatorDef(ops[scopeStart + j + 1].op.name))}]

RECURSIVE Ascending(_)
Ascending(S) ==
    IF S = {} THEN <<>>
    ELSE LET m == CHOOSE x \in S : \A y \in S : x <= y
         IN  <<m>> \o Ascending(S \ {m})

Max(a, b) == IF a >= b THEN a ELSE b

\* The breadth-first pass over the queue of operators whose indegree is 0.
RECURSIVE Levels(_, _, _, _)
Levels(q, indegree, level, deps) ==
    IF q = <<>> THEN level
    ELSE LET u == Head(q)
             hit == {i \in DOMAIN deps : u \in deps[i]}
             indegree1 == [i \in DOMAIN deps |->
                              IF i \in hit THEN indegree[i] - 1 ELSE indegree[i]]
             level1 == [i \in DOMAIN deps |->
                           IF i \in hit THEN Max(level[i], level[u] + 1) ELSE level[i]]
         IN  Levels(Tail(q) \o Ascending({i \in hit : indegree1[i] = 0}),
                    indegree1, level1, deps)

\* The base is one past the timestep of the entry just before the scope.
BaseTimestep(ops, scopeStart) ==
    IF scopeStart > 0 THEN ops[scopeStart].timestep + 1 ELSE 0

AssignTimesteps(ops, scopeStart, scopeEnd) ==
    LET n == scopeEnd - scopeStart
        deps == Deps(ops, scopeStart, n)
        indegree == [i \in 0..(n - 1) |-> Cardinality(deps[i])]
        level == Levels(Ascending({i \in 0..(n - 1) : indegree[i] = 0}), indegree,
                        [i \in 0..(n - 1) |-> 0], deps)
        baseTimestep == BaseTimestep(ops, scopeStart)
    IN  IF n <= 0 THEN ops
        ELSE [k \in 1..Len(ops) |->
                 IF k - 1 \in scopeStart..(scopeEnd - 1)
                 THEN [ops[k] EXCEPT
                          !.timestep = baseTimestep + level[k - 1 - scopeStart],
                          !.dependsOn = @ \o Ascending({scopeStart + d :
                                                           d \in deps[k - 1 - scopeStart]})]
                 ELSE ops[k]]

RECURSIVE MaxTimestep(_, _, _)
MaxTimestep(ops, from, start) ==
    IF from >= Len(ops) THEN start
    ELSE MaxTimestep(ops, from + 1, Max(start, ops[from + 1].timestep))

\* The state of one Parallelize call: the plan, the loop index i and the locals.
Parallelizing(plan) ==
    [plan |-> plan, i |-> 0, result |-> <<>>, currentTimestep |-> 0,
     currentScope |-> -1, scopeStartIndex |-> -1, returned |-> FALSE]

BeginParallelStep(p) ==
    [p EXCEPT !.currentScope = IdOf(p.plan[p.i + 1]),
              !.scopeStartIndex = Len(p.result),
              !.i = @ + 1]

EndParallelStep(p) ==
    LET assigned == AssignTimesteps(p.result, p.scopeStartIndex, Len(p.result))
        p1 == IF p.scopeStartIndex >= 0 /\ p.scopeStartIndex < Len(p.result)
              THEN [p EXCEPT !.result = assigned,
                             !.currentTimestep =
                                 MaxTimestep(assigned, p.scopeStartIndex, p.currentTimestep) + 1]
              ELSE p
    IN  [p1 EXCEPT !.currentScope = -1, !.scopeStartIndex = -1, !.i = @ + 1]

RegularOperatorStep(p) ==
    LET pop == [op |-> p.plan[p.i + 1], scopeId |-> p.currentScope,
                timestep |-> p.currentTimestep, dependsOn |-> <<>>, gAt |-> p.i + 1]
    IN  [p EXCEPT !.currentTimestep = IF p.currentScope = -1 THEN @ + 1 ELSE @,
                  !.result = Append(@, pop),
                  !.i = @ + 1]

ParInit ==
    /\ PlannerIdle /\ domain = NoDomain /\ calc = NoCalc
    /\ \E plan \in Plans(MaxPlanLen) : par = Parallelizing(plan)

InLoop == ~par.returned /\ par.i < Len(par.plan)

Parallelize_BeginParallel ==
    /\ InLoop
    /\ par.plan[par.i + 1].name = "beginParallel"
    /\ par' = BeginParallelStep(par)
    /\ UNCHANGED <<plannerVars, domain, calc>>

Parallelize_EndParallel ==
    /\ InLoop
    /\ par.plan[par.i + 1].name = "endParallel"
    /\ par' = EndParallelStep(par)
    /\ UNCHANGED <<plannerVars, domain, calc>>

Parallelize_Operator ==
    /\ InLoop
    /\ par.plan[par.i + 1].name \notin {"beginParallel", "endParallel"}
    /\ par' = RegularOperatorStep(par)
    /\ UNCHANGED <<plannerVars, domain, calc>>

Parallelize_Return ==
    /\ ~par.returned /\ par.i = Len(par.plan)
    /\ par' = [par EXCEPT !.returned = TRUE]
    /\ UNCHANGED <<plannerVars, domain, calc>>

ParNext ==
    \/ Parallelize_BeginParallel
    \/ Parallelize_EndParallel
    \/ Parallelize_Operator
    \/ Parallelize_Return

ParSpec == ParInit /\ [][ParNext]_vars

\* The scopes of the plan, as pairs of marker places, and the output entries
\* inside, before and after one.
Scopes(plan) ==
    {<<b, MatchingEnd([k \in 1..Len(plan) |-> plan[k].name], b)>> :
        b \in {x \in 1..Len(plan) : plan[x].name = "beginParallel"}}
Inside(result, sc) == {k \in 1..Len(result) : sc[1] < result[k].gAt /\ result[k].gAt < sc[2]}
Before(result, sc) == {k \in 1..Len(result) : result[k].gAt < sc[1]}
After(result, sc) == {k \in 1..Len(result) : result[k].gAt > sc[2]}
InNoScope(plan, result) ==
    {k \in 1..Len(result) : \A sc \in Scopes(plan) : k \notin Inside(result, sc)}

\* C25: in the output of Parallelize the operators outside every scope have
\* strictly increasing timesteps in plan order, an operator inside a scope has
\* a timestep strictly greater than every operator before the scope, and an
\* operator after a scope a timestep strictly greater than every operator
\* inside it.
C25_TimestepsOrderedAroundScopes ==
    par.returned =>
        LET r == par.result
        IN  /\ \A a, b \in InNoScope(par.plan, r) : a < b => r[a].timestep < r[b].timestep
            /\ \A sc \in Scopes(par.plan) :
                  /\ \A a \in Before(r, sc), b \in Inside(r, sc) : r[a].timestep < r[b].timestep
                  /\ \A a \in Inside(r, sc), b \in After(r, sc) : r[a].timestep < r[b].timestep

\* C26: in the output of Parallelize, an operator of a scope that HasDependency
\* holds for against an earlier operator of the same scope has a strictly
\* larger timestep than that operator, and the operators of a scope that
\* depend on no earlier operator of it all have the lowest timestep of the
\* scope.
C26_DependentLaterIndependentLowest ==
    par.returned =>
        LET r == par.result
            Dep(a, b) == HasDependency(OperatorDef(r[a].op.name), OperatorDef(r[b].op.name))
        IN  \A sc \in Scopes(par.plan) :
                LET in == Inside(r, sc)
                IN  /\ \A a, b \in in : (a < b /\ Dep(a, b)) => r[a].timestep < r[b].timestep
                    /\ \A b \in in :
                          (\A a \in in : a < b => ~Dep(a, b)) =>
                              \A c \in in : r[b].timestep <= r[c].timestep

\* ------------------------------------------------------------------------
\* is(X, /(left, right)): HtnArithmeticOperators::Divide under the is/2 rule.
\* A number is its type, its value num/den and, for a double that is no
\* number, the name lexical_cast gives it.
\* ------------------------------------------------------------------------
IntMax == 3

IntValue(n) == [type |-> "IntType", num |-> n, den |-> 1, special |-> ""]
FloatValue(n, d) == [type |-> "FloatType", num |-> n, den |-> d, special |-> ""]
FloatSpecial(s) == [type |-> "FloatType", num |-> 0, den |-> 1, special |-> s]
Atom == [type |-> "Atom", num |-> 0, den |-> 1, special |-> ""]
Operands ==
    {IntValue(n) : n \in (-IntMax)..IntMax} \cup {FloatValue(n, 1) : n \in (-IntMax)..IntMax}
    \cup {Atom}

\* Eval of an operand: itself when it is a number, nullptr (<<>>) otherwise.
Eval(term) == IF term.type = "Atom" THEN <<>> ELSE <<term>>

Abs(n) == IF n < 0 THEN -n ELSE n
\* The / of two C++ integers, rounding toward zero.
IntQuotient(a, b) ==
    IF (a < 0) = (b < 0) THEN Abs(a) \div Abs(b) ELSE -(Abs(a) \div Abs(b))
\* The / of two doubles: infinities and NaN for a zero divisor.
DoubleQuotient(a, b) ==
    IF b.num = 0
    THEN FloatSpecial(IF a.num > 0 THEN "inf" ELSE IF a.num < 0 THEN "-inf" ELSE "nan")
    ELSE IF b.num > 0 THEN FloatValue(a.num * b.den, a.den * b.num)
    ELSE FloatValue(-(a.num * b.den), -(a.den * b.num))

Term(v) == [kind |-> "term", value |-> v]
Null == [kind |-> "nullptr", value |-> Atom]
Trap == [kind |-> "trap", value |-> Atom]

\* Divide, as the set of what a call can do.  The integer / with a zero
\* divisor is undefined: the builds either trap (x86 idiv raises SIGFPE) or
\* give 0 (AArch64 sdiv).
Divide(left, right) ==
    LET leftEval == Eval(left)
        rightEval == Eval(right)
    IN  IF leftEval = <<>> \/ rightEval = <<>> THEN {Null}
        ELSE IF left.type = "IntType" /\ right.type = "IntType"
             THEN IF right.num = 0 THEN {Trap, Term(IntValue(0))}
                  ELSE {Term(IntValue(IntQuotient(left.num, right.num)))}
        ELSE {Term(DoubleQuotient(left, right))}

Evaluating(left, right) ==
    [left |-> left, right |-> right, pc |-> "is", x |-> Atom]

\* is/2: X is bound to what the right side evaluates to; no value, no solution.
RuleIs(c, outcome) ==
    IF outcome.kind = "trap" THEN [c EXCEPT !.pc = "fatal"]
    ELSE IF outcome.kind = "nullptr" THEN [c EXCEPT !.pc = "failed"]
    ELSE [c EXCEPT !.pc = "bound", !.x = outcome.value]

CalcInit ==
    /\ PlannerIdle /\ domain = NoDomain /\ par = NoPlan
    /\ \E left \in Operands, right \in Operands : calc = Evaluating(left, right)

Is_Binds ==
    /\ calc.pc = "is"
    /\ \E outcome \in Divide(calc.left, calc.right) :
          /\ outcome.kind = "term"
          /\ calc' = RuleIs(calc, outcome)
    /\ UNCHANGED <<plannerVars, domain, par>>

Is_Fails ==
    /\ calc.pc = "is"
    /\ \E outcome \in Divide(calc.left, calc.right) :
          /\ outcome.kind = "nullptr"
          /\ calc' = RuleIs(calc, outcome)
    /\ UNCHANGED <<plannerVars, domain, par>>

Is_Traps ==
    /\ calc.pc = "is"
    /\ \E outcome \in Divide(calc.left, calc.right) :
          /\ outcome.kind = "trap"
          /\ calc' = RuleIs(calc, outcome)
    /\ UNCHANGED <<plannerVars, domain, par>>

CalcNext == Is_Binds \/ Is_Fails \/ Is_Traps

CalcSpec == CalcInit /\ [][CalcNext]_vars

\* C27: is(X, /(a, 0)) for a number a, once evaluated, has not ended the
\* process and has not failed: it has bound X to the integer 0.
C27_DivisionByZeroBindsZero ==
    (calc.pc # "is" /\ calc.left.type # "Atom" /\ calc.right = IntValue(0)) =>
        calc.pc = "bound" /\ calc.x = IntValue(0)


\* ------------------------------------------------------------------------
\* A child pushed over the memory budget
\* ------------------------------------------------------------------------
\* The loop is about to visit, for the first time, a node whose measurement
\* at its push was over the budget.
VisitsOverBudgetChild ==
    /\ Dispatching
    /\ Top(ps).totalMemoryAtNodePush > ps.memoryBudget
    /\ Top(ps).continuePoint # "Fail"

\* Nothing of the search moves: no node pushed or popped, no RuleSet or
\* operator list changed, no tree entry made, no plan found.
SearchStandsStill ==
    /\ Len(ps'.stack) = Len(ps.stack)
    /\ ps'.rs = ps.rs /\ ps'.opv = ps.opv
    /\ ps'.nextNodeID = ps.nextNodeID
    /\ ps'.decompositionTree = ps.decompositionTree
    /\ gFound' = gFound

\* The statement of C31 as it stands: the iteration that visits a child pushed
\* over the budget always raises the out-of-memory flag.
C31_OverBudgetChildAlwaysRaisesFlag ==
    [][(VisitsOverBudgetChild /\ ps' # ps) =>
          /\ pc' = "returned"
          /\ NoTaskDispatched
          /\ ps'.outOfMemory]_vars

\* C31: a child pushed with the measured size over the budget dispatches no
\* task: the iteration that visits it leaves the node in Fail and returns a
\* partial solution, raising the out-of-memory flag when the abort flag is
\* clear (with the abort flag set the Abort case returns in its place and the
\* flag keeps its value); and from the state in which the budget was found
\* exceeded on, no operator is applied, no method expanded and no node pushed.
C31_OverBudgetChildDispatchesNoTask ==
    /\ [][(VisitsOverBudgetChild /\ ps' # ps) =>
            /\ pc' = "returned"
            /\ NoTaskDispatched
            /\ Len(nextSolution') = 1 /\ ~nextSolution'[1].gComplete
            /\ ps'.outOfMemory = (m_abort = 0 \/ ps.outOfMemory)]_vars
    /\ [][ps.gBudgetExceeded => SearchStandsStill]_vars

\* FindNextPlan has returned from the OutOfMemory case on a child pushed over
\* the budget by a method's subtasks, operators applied before it.
C31_Witness ==
    /\ pc = "returned" /\ ps.outOfMemory /\ ~gAbortSeen
    /\ ps.stack # <<>>
    /\ Top(ps).totalMemoryAtNodePush > ps.memoryBudget
    /\ Top(ps).continuePoint = "Fail"
    /\ Top(ps).tasks # <<>>
    /\ Top(ps).gApplied # <<>>
    /\ nextSolution # <<>> /\ ~nextSolution[1].gComplete


\* ------------------------------------------------------------------------
\* Push, pop and the return states
\* ------------------------------------------------------------------------
ReturnStates ==
    {"ReturnFromCheckForOperator", "ReturnFromNextNormalMethodCondition",
     "ReturnFromHandleTryTerm", "ReturnFromSetOfConditions"}

\* A step pops a node and leaves a node below it.
ChildPopped ==
    /\ ps.stack # <<>>
    /\ Len(ps'.stack) = Len(ps.stack) - 1
    /\ ps'.stack # <<>>

\* C32: when a child is popped, the node that becomes the top of the stack is
\* the node that pushed it, standing where the push left it, in one of the
\* four return states; and whenever the loop is about to run a node in a
\* return state, the shared returnValue is the value written by the pop of
\* the child that node had pushed.
C32_PopReturnsToPusherWithChildsValue ==
    /\ [][ChildPopped =>
            /\ Top(ps').m_nodeID = Top(ps).gPushedBy
            /\ Top(ps').continuePoint = ps.stack[Len(ps.stack) - 1].continuePoint
            /\ Top(ps').continuePoint \in ReturnStates
            /\ ps'.gLastPop[1].child = Top(ps).m_nodeID
            /\ ps'.returnValue = ps'.gLastPop[1].value]_vars
    /\ []((Dispatching /\ Top(ps).continuePoint \in ReturnStates) =>
            /\ ps.gLastPop # <<>>
            /\ ps.gLastPop[1].pushedBy = Top(ps).m_nodeID
            /\ ps.gLastPop[1].value = ps.returnValue)

\* A node that took up a try is about to read FALSE from the child it pushed,
\* after an earlier pop somewhere had written TRUE: a plan has been found.
C32_Witness ==
    /\ Dispatching /\ m_abort = 0
    /\ Len(ps.stack) >= 2
    /\ Top(ps).continuePoint = "ReturnFromHandleTryTerm"
    /\ ~ps.returnValue
    /\ ps.gLastPop # <<>> /\ ps.gLastPop[1].pushedBy = Top(ps).m_nodeID
    /\ gFound # <<>>


\* ------------------------------------------------------------------------
\* Alternatives do not see each other
\* ------------------------------------------------------------------------
\* The node is choosing among alternatives or waiting for one it pushed: the
\* conditions of a normal method, a set-of group, the body of a try.
HoldsAlternatives(n) ==
    n.continuePoint \in {"NextMethodThatApplies", "NextNormalMethodCondition",
                         "ReturnFromNextNormalMethodCondition",
                         "ReturnFromSetOfConditions", "ReturnFromHandleTryTerm"}

FactsOf(s, n) == s.rs[n.state]

\* A step pushes an alternative: a child whose parent waits at one of the
\* return points of SearchNextNodeBacktrackable.
AlternativePushed ==
    /\ ps.stack # <<>>
    /\ Len(ps'.stack) = Len(ps.stack) + 1
    /\ ps'.stack[Len(ps.stack)].continuePoint \in ReturnStates \ {"ReturnFromCheckForOperator"}

\* C33: an alternative starts from the facts and the operator list its node
\* has at the push, in a RuleSet and a list of its own; and as long as a node
\* holds alternatives, whatever is done above it on the stack leaves the
\* node's facts and operator list as they are, so that every later alternative
\* of the node, and of the nodes below it, starts from the same facts.
C33_AlternativesStartFromNodesState ==
    /\ [][AlternativePushed =>
            /\ FactsOf(ps', Top(ps')) = FactsOf(ps, Top(ps))
            /\ OpsOf(ps', Top(ps')) = OpsOf(ps, Top(ps))
            /\ Top(ps').state # Top(ps).state
            /\ Top(ps').operators # 0 => Top(ps').operators # Top(ps).operators]_vars
    /\ [][\A i \in 1..Len(ps.stack) :
            (i <= Len(ps'.stack) /\ HoldsAlternatives(ps.stack[i])) =>
                /\ ps'.stack[i].state = ps.stack[i].state
                /\ FactsOf(ps', ps'.stack[i]) = FactsOf(ps, ps.stack[i])
                /\ OpsOf(ps', ps'.stack[i]) = OpsOf(ps, ps.stack[i])]_vars

\* A normal method's node has pushed the alternative of its second condition
\* binding after the alternative of the first had applied operators the node
\* does not have.
C33_Witness ==
    /\ Len(ps.stack) >= 2
    /\ \E i \in 1..(Len(ps.stack) - 1) :
          LET n == ps.stack[i] IN
          /\ n.continuePoint = "ReturnFromNextNormalMethodCondition"
          /\ n.conditionIndex >= 1
          /\ \E k \in (n.state + 1)..(ps.stack[i + 1].state - 1) :
                Len(ps.gRsApplied[k]) > Len(n.gApplied)
          /\ FactsOf(ps, ps.stack[i + 1]) = FactsOf(ps, n)


\* ------------------------------------------------------------------------
\* The recorded failure
\* ------------------------------------------------------------------------
\* What RecordFailure keeps.
Recorded(s) ==
    [depth |-> s.deepestTaskFailure, index |-> s.furthestCriteriaFailure,
     context |-> s.furthestCriteriaFailureContext]

LexGreater(f, g) == f.depth > g.depth \/ (f.depth = g.depth /\ f.index > g.index)

\* C34: the recorded failure changes only to a failure whose (stack depth,
\* failed-condition index) pair is strictly greater in lexicographic order;
\* at every moment it is the first of the failures told to RecordFailure so
\* far that no other exceeds; and that one is what FindAllPlans reports when
\* it returns no solution.
C34_RecordedFailureOnlyMovesUp ==
    /\ [][Recorded(ps') # Recorded(ps) => LexGreater(Recorded(ps'), Recorded(ps))]_vars
    /\ [](ps.gFailures # <<>> => Recorded(ps) = DeepestFailure(ps.gFailures))
    /\ []((pc = "done" /\ api = "FindAllPlans" /\ returned.solutions = <<>>
           /\ ps.gFailures # <<>>) =>
             /\ returned.furthestFailureIndex = DeepestFailure(ps.gFailures).depth
             /\ returned.furthestFailureContext = DeepestFailure(ps.gFailures).context)

\* FindAllPlans has reported the first of two condition failures of equal
\* depth and index whose contexts differ.
C34_Witness ==
    /\ pc = "done" /\ api = "FindAllPlans" /\ returned.solutions = <<>>
    /\ \E i, j \in 1..Len(ps.gFailures) :
          /\ i < j
          /\ ps.gFailures[i].depth = ps.gFailures[j].depth
          /\ ps.gFailures[i].index = ps.gFailures[j].index
          /\ ps.gFailures[i].context # ps.gFailures[j].context
          /\ ps.gFailures[i] = DeepestFailure(ps.gFailures)
          /\ returned.furthestFailureContext = ps.gFailures[i].context


\* ------------------------------------------------------------------------
\* The nodes the bookkeeping tasks look up
\* ------------------------------------------------------------------------
LookupTasks == {"tryEnd", "countAnyOf", "failIfNoneOf"}

\* The node ids named by the tryEnd, countAnyOf and failIfNoneOf tasks of a
\* task list, those inside the arguments of try() and parallel() included.
RECURSIVE LookedUp(_)
LookedUp(tasks) ==
    UNION {IF tasks[i].name \in LookupTasks THEN {IdOf(tasks[i])}
           ELSE IF tasks[i].name \in {"try", "parallel"} THEN LookedUp(tasks[i].args)
           ELSE {} : i \in 1..Len(tasks)}

\* The loop is about to take a tryEnd, countAnyOf or failIfNoneOf task.
LookupDispatched == Dispatch("NextTask") /\ NextTaskName(ps) \in LookupTasks

\* C35: whenever a tryEnd(id), countAnyOf(id) or failIfNoneOf(id) task is
\* about to be taken, a node with that id is on the stack, and taking it does
\* not end in the assertion of FindNodeWithID; more, every such task waiting
\* in the list of a node on the stack names that node or a node below it.
C35_BookkeepingTargetOnStack ==
    /\ [](LookupDispatched => NodeOnStack(ps.stack, IdOf(Head(Top(ps).tasks))))
    /\ [][(LookupDispatched /\ ps' # ps) => ~ps'.failFast]_vars
    /\ [](\A i \in 1..Len(ps.stack) :
             \A id \in LookedUp(ps.stack[i].tasks) :
                 \E j \in 1..i : ps.stack[j].m_nodeID = id)

\* The node an anyOf method pushed is itself about to take failIfNoneOf with
\* its own id, every try() of its groups having been skipped, below a node
\* further down the stack.
C35_Witness ==
    /\ LookupDispatched
    /\ NextTaskName(ps) = "failIfNoneOf"
    /\ IdOf(Head(Top(ps).tasks)) = Top(ps).m_nodeID
    /\ Top(ps).gTrySkipped
    /\ Len(ps.stack) >= 2


\* ------------------------------------------------------------------------
\* Solutions already handed out
\* ------------------------------------------------------------------------
\* The solutions the caller holds: those collected and the one just returned.
Handed == Solutions \cup {nextSolution[i] : i \in 1..Len(nextSolution)}

\* The facts of the RuleSet a solution points to.
FinalFacts(s, sol) == s.rs[sol.second]

\* C36: no step of the search changes the facts of the RuleSet of a solution
\* that has been returned, and a solution the caller has collected keeps its
\* operator list and its RuleSet.
C36_ReturnedSolutionsStayAsReturned ==
    /\ [][\A sol \in Handed : FinalFacts(ps', sol) = FinalFacts(ps, sol)]_vars
    /\ [][\A i \in 1..Len(finalSolutions) :
            /\ i <= Len(finalSolutions')
            /\ finalSolutions'[i].first = finalSolutions[i].first
            /\ finalSolutions'[i].second = finalSolutions[i].second]_vars

\* The search has gone on after a first plan was returned, has applied
\* operators since, and has returned a second plan with other final facts.
C36_Witness ==
    /\ Len(finalSolutions) >= 2
    /\ finalSolutions[1].gComplete /\ finalSolutions[2].gComplete
    /\ finalSolutions[1].first # <<>>
    /\ FinalFacts(ps, finalSolutions[1]) # FinalFacts(ps, finalSolutions[2])
    /\ finalSolutions[1].second # finalSolutions[2].second


\* ------------------------------------------------------------------------
\* The caller's RuleSet
\* ------------------------------------------------------------------------
\* The facts now in the RuleSet the caller passed as initialState.
CallersFacts == ps.rs[ps.initialState]

\* C37: during and after FindPlan and FindAllPlans the RuleSet the caller
\* supplied holds the facts it held when the call began.
C37_InitialRuleSetUntouched ==
    api \in {"FindPlan", "FindAllPlans"} => CallersFacts = gInitialFacts


\* ------------------------------------------------------------------------
\* Abort requests
\* ------------------------------------------------------------------------
\* C38: an abort request made while the search is running is still standing
\* when the loop of FindNextPlan comes to its next iteration: no step taken
\* while the search runs clears the flag.
C38_AbortRequestNeverLost ==
    [][(Dispatching /\ m_abort # 0) => m_abort' # 0]_vars


\* ------------------------------------------------------------------------
\* A second call on the same planner.  ps.gCall tells the calls apart.
\* FindPlan and FindAllPlans build a new PlanState from their arguments and
\* touch nothing else of the planner; m_abort is as the earlier call left it.
\* ------------------------------------------------------------------------
\* HtnPlanner::Abort() called while the first search runs.
Abort_FirstCall == ps.gCall = 1 /\ Abort

\* The caller, handed the result of an aborted FindPlan, calls FindPlan or
\* FindAllPlans again on the same planner.
CallAgain ==
    /\ pc = "done" /\ gAbortSeen /\ ps.gCall = 1
    /\ \E p \in Problems, b \in Budgets, a \in {"FindPlan", "FindAllPlans"} :
          /\ gInitialFacts' = p.base \o p.optional
          /\ ps' = [PlanState(p.base \o p.optional, p.goals, b, ps.sibTracking)
                      EXCEPT !.gCall = 2]
          /\ api' = a
    /\ pc' = "FindNextPlan"
    /\ nextSolution' = <<>>
    /\ finalSolutions' = <<>>
    /\ returned' = [solutions |-> <<>>, highestMemoryUsedReturn |-> -1,
                    furthestFailureIndex |-> -1, furthestFailureContext |-> <<>>]
    /\ gFound' = <<>>
    /\ gAbortSeen' = FALSE
    /\ gCallsAfterAbort' = 0
    /\ UNCHANGED <<m_abort, OtherParts>>

AgainInit == Init /\ api = "FindPlan"

\* No other planner is constructed, and no abort is requested during the
\* second call.
AgainNext ==
    \/ Abort_FirstCall
    \/ CallAgain
    \/ FindNextPlan_StackEmpty
    \/ Case_Abort
    \/ Case_OutOfMemory
    \/ NextTask_Leaf
    \/ NextTask_Operator
    \/ NextTask_Try
    \/ NextTask_TryEnd
    \/ NextTask_MethodScopeEnd
    \/ NextTask_CountAnyOf
    \/ NextTask_FailIfNoneOf
    \/ NextTask_Parallel
    \/ NextTask_ParallelMarker
    \/ NextTask_NoMethods
    \/ NextTask_Methods
    \/ Case_NextMethodThatApplies
    \/ Case_NextNormalMethodCondition
    \/ Case_ReturnFromNextNormalMethodCondition
    \/ Case_ReturnFromCheckForOperator
    \/ Case_ReturnFromHandleTryTerm
    \/ Case_ReturnFromSetOfConditions
    \/ FindPlan_Return
    \/ FindAllPlans_Collect

AgainSpec == AgainInit /\ [][AgainNext]_vars

\* C39: a call of FindPlan or FindAllPlans started after an aborted search has
\* returned, during which no abort is requested, never runs the Abort case.
C39_LaterCallNotCutShort == ps.gCall = 2 => ~gAbortSeen


\* ------------------------------------------------------------------------
\* Scope ids of parallel blocks
\* ------------------------------------------------------------------------
\* C40: the parallel(...) blocks expanded on the way to a plan, one after the
\* other or one inside the other, have pairwise different scope ids on their
\* markers.
C40_ParallelScopesHaveDistinctIds ==
    \A sol \in Handed :
        \A j, k \in 1..Len(sol.gScopes) :
            j # k => sol.gScopes[j].id # sol.gScopes[k].id


====
